---- MODULE Spec2Model ----
(***************************************************************************)
(* Glyph v2 encode / decode / validate core of radiantjs.                  *)
(*                                                                         *)
(* Every operation of the core is a synchronous function of its arguments. *)
(* A behaviour of the model is one caller session: Init draws the          *)
(* arguments from bounded sets, an action applies one operation to them    *)
(* and records what it returned (or that it threw) in `result`.            *)
(*                                                                         *)
(* Byte buffers are sequences over 0..255.                                 *)
(***************************************************************************)
EXTENDS Integers, Sequences, FiniteSets, TLC

VARIABLES
    op,         \* the operation applied last, "init" before any
    protocols,  \* the protocol list handed to the validator
    options,    \* the options object handed to an envelope encoder, or the
                \* arguments handed to getGlyphId
    metadata,   \* the caller's metadata value (encodeMetadata may set its v)
    twin,       \* a second metadata value: the content of the first, reordered
    calls,      \* the calls made on the metadata so far: function, argument
                \* as it was at the call, and what the call returned
    scriptBuf,  \* the byte buffer handed to the decoder
    tx,         \* the transaction handed to the transaction scanner
    result      \* what the operation returned, or that it threw

vars == <<op, protocols, options, metadata, twin, calls, scriptBuf, tx, result>>

(***************************************************************************)
(* Constants (lib/glyph/constants.js)                                      *)
(***************************************************************************)
GLYPH_FT == 1
GLYPH_NFT == 2
GLYPH_DAT == 3
GLYPH_DMINT == 4
GLYPH_MUT == 5
GLYPH_BURN == 6
GLYPH_CONTAINER == 7
GLYPH_ENCRYPTED == 8
GLYPH_TIMELOCK == 9
GLYPH_AUTHORITY == 10
GLYPH_WAVE == 11

GlyphProtocol == GLYPH_FT..GLYPH_WAVE

ProtocolNames ==
    <<"Fungible Token", "Non-Fungible Token", "Data Storage",
      "Decentralized Minting", "Mutable State", "Burn", "Container",
      "Encrypted", "Timelock", "Authority", "WAVE Name">>

MAX_PROTOCOLS == 16

\* Buffer.from('gly', 'ascii')
GLYPH_MAGIC == <<103, 108, 121>>

GlyphVersion_V1 == 1
GlyphVersion_V2 == 2

HAS_CONTENT_ROOT == 1
HAS_CONTROLLER == 2
HAS_PROFILE_HINT == 4
IS_REVEAL == 128

\* field widths of the commit envelope
COMMIT_HASH_SIZE == 32
CONTENT_ROOT_SIZE == 32
CONTROLLER_SIZE == 36

(***************************************************************************)
(* Bounds of the model                                                     *)
(***************************************************************************)
\* longest protocol list enumerated entry by entry
MaxProtocolLen == 3
\* longest seed of a padded (16- or 17-entry) protocol list
MaxSeedLen == 1
\* longest script buffer enumerated byte by byte over the magic's alphabet
MaxBufLen == 5
\* longest run of header/body bytes enumerated after a magic
MaxTailLen == 4
\* byte patterns 0..MaxPattern fill the hash, content-root and controller fields
MaxPattern == 2

(***************************************************************************)
(* Generic helpers                                                         *)
(***************************************************************************)
SeqsUpTo(S, n) == UNION {[1..k -> S] : k \in 0..n}

\* n copies of x, as a sequence
Repeat(x, n) == [i \in 1..n |-> x] \o <<>>

\* the concatenation of ss[lo..hi], a sequence of sequences, by halving
RECURSIVE Flatten(_, _, _)
Flatten(ss, lo, hi) ==
    IF lo > hi THEN <<>>
    ELSE IF lo = hi THEN ss[lo]
    ELSE Flatten(ss, lo, (lo + hi) \div 2) \o Flatten(ss, (lo + hi) \div 2 + 1, hi)

\* the sum of ns[lo..hi], by halving
RECURSIVE SumRange(_, _, _)
SumRange(ns, lo, hi) ==
    IF lo > hi THEN 0
    ELSE IF lo = hi THEN ns[lo]
    ELSE SumRange(ns, lo, (lo + hi) \div 2) + SumRange(ns, (lo + hi) \div 2 + 1, hi)

\* the value `result` holds before any call
NoResult == [none |-> TRUE]

\* what a call that raised an exception leaves
Threw(what) == [threw |-> what]

(***************************************************************************)
(* JavaScript values.  Every value is a record [t, v]: t is the type tag,  *)
(* v the payload.  A string is the sequence of its code points, an array   *)
(* the sequence of its elements, an object the sequence of its             *)
(* <<key, value>> properties in property order (keys are code-point        *)
(* sequences, no key twice), a Buffer the sequence of its bytes.           *)
(***************************************************************************)
Undefined == [t |-> "undefined", v |-> 0]
Null == [t |-> "null", v |-> 0]
Bool(b) == [t |-> "bool", v |-> b]
Num(n) == [t |-> "num", v |-> n]
Str(s) == [t |-> "str", v |-> s]
Arr(a) == [t |-> "arr", v |-> a]
Obj(props) == [t |-> "obj", v |-> props]
Buf(bytes) == [t |-> "buf", v |-> bytes]

\* a JS array of numbers from a list of integers, and back
NumArr(list) == Arr([i \in 1..Len(list) |-> Num(list[i])])
Ids(x) == [i \in 1..Len(x.v) |-> x.v[i].v]

\* ToBoolean
Truthy(x) ==
    CASE x.t \in {"undefined", "null"} -> FALSE
      [] x.t = "bool" -> x.v
      [] x.t = "num" -> x.v # 0
      [] x.t = "str" -> Len(x.v) > 0
      [] OTHER -> TRUE

IsArray(x) == x.t = "arr"

\* reading a property of undefined or null raises a TypeError
CanRead(x) == x.t \notin {"undefined", "null"}

HasKey(x, key) == x.t = "obj" /\ \E i \in 1..Len(x.v) : x.v[i][1] = key

\* x[key] for an ordinary data key, x readable: the own property of an
\* object, undefined on every other value
Get(x, key) ==
    IF HasKey(x, key)
    THEN x.v[CHOOSE i \in 1..Len(x.v) : x.v[i][1] = key][2]
    ELSE Undefined

\* decimal digits of a natural number, as code points
RECURSIVE Decimal(_)
Decimal(n) == IF n < 10 THEN <<48 + n>> ELSE Decimal(n \div 10) \o <<48 + (n % 10)>>

\* the code points of String(x) for a number (integers only)
NumToString(n) == IF n < 0 THEN <<45>> \o Decimal(0 - n) ELSE Decimal(n)

IsSubSeq(needle, hay) ==
    \E i \in 0..(Len(hay) - Len(needle)) :
        \A j \in 1..Len(needle) : hay[i + j] = needle[j]

\* whether x.includes exists: Array.prototype.includes, String.prototype.includes
HasIncludes(x) == x.t \in {"arr", "str", "buf"}

\* x.includes(Num(n)): SameValueZero membership on an array, a byte search
\* on a Buffer, a substring search for String(n) on a string
Includes(x, n) ==
    CASE x.t = "arr" -> \E i \in 1..Len(x.v) : x.v[i] = Num(n)
      [] x.t = "buf" -> \E i \in 1..Len(x.v) : x.v[i] = n % 256
      [] OTHER -> IsSubSeq(NumToString(n), x.v)

(***************************************************************************)
(* Strings and bytes: Buffer.from(str, 'utf8'), buf.toString('utf8'),      *)
(* Buffer.byteLength(str, 'utf8')                                          *)
(***************************************************************************)
\* the UTF-8 bytes of one code point
Utf8OfCodePoint(c) ==
    IF c < 128 THEN <<c>>
    ELSE IF c < 2048 THEN <<192 + (c \div 64), 128 + (c % 64)>>
    ELSE IF c < 65536
         THEN <<224 + (c \div 4096), 128 + ((c \div 64) % 64), 128 + (c % 64)>>
    ELSE <<240 + (c \div 262144), 128 + ((c \div 4096) % 64),
           128 + ((c \div 64) % 64), 128 + (c % 64)>>

Utf8Encode(s) == Flatten([i \in 1..Len(s) |-> Utf8OfCodePoint(s[i])], 1, Len(s))

Utf8ByteLength(s) == SumRange([i \in 1..Len(s) |-> Len(Utf8OfCodePoint(s[i]))], 1, Len(s))

\* U+FFFD, what the decoder emits for a malformed sequence
REPLACEMENT_CHARACTER == 65533

IsCont(b, i) == i >= 1 /\ i <= Len(b) /\ b[i] >= 128 /\ b[i] <= 191

\* how many continuation bytes (at most 3) follow position i
ContsAfter(b, i) ==
    IF ~IsCont(b, i + 1) THEN 0
    ELSE IF ~IsCont(b, i + 2) THEN 1
    ELSE IF ~IsCont(b, i + 3) THEN 2 ELSE 3

\* whether the byte after lead byte b[i] is in the range that lead allows
SecondOk(b, i) ==
    /\ IsCont(b, i + 1)
    /\ (b[i] = 224 => b[i + 1] >= 160)
    /\ (b[i] = 237 => b[i + 1] <= 159)
    /\ (b[i] = 240 => b[i + 1] >= 144)
    /\ (b[i] = 244 => b[i + 1] <= 143)

\* the continuation bytes the sequence starting at the non-continuation byte
\* b[i] takes with it: all of a well-formed sequence, or the well-formed
\* start of a truncated one
Consumed(b, i) ==
    IF b[i] >= 194 /\ b[i] <= 223 THEN (IF ContsAfter(b, i) >= 1 THEN 1 ELSE 0)
    ELSE IF b[i] >= 224 /\ b[i] <= 239
         THEN (IF SecondOk(b, i) THEN (IF ContsAfter(b, i) >= 2 THEN 2 ELSE 1) ELSE 0)
    ELSE IF b[i] >= 240 /\ b[i] <= 244
         THEN (IF SecondOk(b, i) THEN ContsAfter(b, i) ELSE 0)
    ELSE 0

\* what the sequence starting at the non-continuation byte b[i] decodes to
LeadOutput(b, i) ==
    IF b[i] < 128 THEN b[i]
    ELSE IF b[i] >= 194 /\ b[i] <= 223 /\ Consumed(b, i) = 1
         THEN (b[i] - 192) * 64 + (b[i + 1] - 128)
    ELSE IF b[i] >= 224 /\ b[i] <= 239 /\ Consumed(b, i) = 2
         THEN (b[i] - 224) * 4096 + (b[i + 1] - 128) * 64 + (b[i + 2] - 128)
    ELSE IF b[i] >= 240 /\ b[i] <= 244 /\ Consumed(b, i) = 3
         THEN (b[i] - 240) * 262144 + (b[i + 1] - 128) * 4096
              + (b[i + 2] - 128) * 64 + (b[i + 3] - 128)
    ELSE REPLACEMENT_CHARACTER

\* what byte i contributes to the decoded text: a non-continuation byte the
\* output of its sequence, a continuation byte nothing when the sequence
\* before it takes it and U+FFFD when it is stray
DecodedAt(b, i) ==
    IF ~IsCont(b, i) THEN <<LeadOutput(b, i)>>
    ELSE IF \E d \in 1..3 :
                /\ i - d >= 1
                /\ ~IsCont(b, i - d)
                /\ \A k \in 1..(d - 1) : IsCont(b, i - k)
                /\ Consumed(b, i - d) >= d
         THEN <<>>
    ELSE <<REPLACEMENT_CHARACTER>>

\* buf.toString('utf8'): the decoder never fails
Utf8Decode(b) == Flatten([i \in 1..Len(b) |-> DecodedAt(b, i)], 1, Len(b))

(***************************************************************************)
(* JSON.stringify.  Text is a sequence of code points.                     *)
(***************************************************************************)
HexDigit(n) == IF n < 10 THEN 48 + n ELSE 87 + n

\* one character inside a string literal
QuoteChar(c) ==
    CASE c = 34 -> <<92, 34>>
      [] c = 92 -> <<92, 92>>
      [] c = 8 -> <<92, 98>>
      [] c = 12 -> <<92, 102>>
      [] c = 10 -> <<92, 110>>
      [] c = 13 -> <<92, 114>>
      [] c = 9 -> <<92, 116>>
      [] c < 32 /\ c \notin {8, 9, 10, 12, 13} ->
            <<92, 117, 48, 48, HexDigit(c \div 16), HexDigit(c % 16)>>
      [] OTHER -> <<c>>

QuoteChars(s) == Flatten([i \in 1..Len(s) |-> QuoteChar(s[i])], 1, Len(s))

Quote(s) == <<34>> \o QuoteChars(s) \o <<34>>

\* the text of a value; `inArray` tells how undefined is written.  A property
\* whose value is undefined is left out of an object; a Buffer is written
\* through its toJSON as {"type":"Buffer","data":[...]}.
RECURSIVE Stringify(_)
RECURSIVE StringifyElems(_, _)
RECURSIVE StringifyProps(_, _, _)
Stringify(x) ==
    CASE x.t = "null" -> <<110, 117, 108, 108>>
      [] x.t = "undefined" -> <<110, 117, 108, 108>>
      [] x.t = "bool" -> IF x.v THEN <<116, 114, 117, 101>> ELSE <<102, 97, 108, 115, 101>>
      [] x.t = "num" -> NumToString(x.v)
      [] x.t = "str" -> Quote(x.v)
      [] x.t = "arr" -> <<91>> \o StringifyElems(x.v, 1) \o <<93>>
      [] x.t = "buf" ->
            Stringify(Obj(<< <<(<<116, 121, 112, 101>>), Str(<<66, 117, 102, 102, 101, 114>>)>>,
                             <<(<<100, 97, 116, 97>>), NumArr(x.v)>> >>))
      [] x.t = "obj" -> <<123>> \o StringifyProps(x.v, 1, TRUE) \o <<125>>

StringifyElems(a, i) ==
    IF i > Len(a) THEN <<>>
    ELSE (IF i > 1 THEN <<44>> ELSE <<>>) \o Stringify(a[i]) \o StringifyElems(a, i + 1)

StringifyProps(props, i, first) ==
    IF i > Len(props) THEN <<>>
    ELSE IF props[i][2].t = "undefined" THEN StringifyProps(props, i + 1, first)
    ELSE (IF first THEN <<>> ELSE <<44>>) \o Quote(props[i][1]) \o <<58>>
         \o Stringify(props[i][2]) \o StringifyProps(props, i + 1, FALSE)

(***************************************************************************)
(* JSON.parse: a recursive-descent parser over code points.  Every parser  *)
(* returns [ok, val, pos]: whether it matched, the value, and the position *)
(* after the match.  A number with a fraction or an exponent is kept as    *)
(* its text (tag "float"); the model has no reals.                         *)
(***************************************************************************)
ParseFail == [ok |-> FALSE, val |-> Undefined, pos |-> 0]
Parsed(v, p) == [ok |-> TRUE, val |-> v, pos |-> p]

IsWs(c) == c \in {32, 9, 10, 13}
IsDigit(c) == c >= 48 /\ c <= 57
IsHex(c) == IsDigit(c) \/ (c >= 97 /\ c <= 102) \/ (c >= 65 /\ c <= 70)
HexVal(c) == IF IsDigit(c) THEN c - 48 ELSE IF c >= 97 THEN c - 87 ELSE c - 55

\* the first position at or after i that holds no white space (Len + 1 at the end)
SkipWs(t, i) ==
    CHOOSE j \in i..(Len(t) + 1) :
        /\ j > Len(t) \/ ~IsWs(t[j])
        /\ \A k \in i..(j - 1) : IsWs(t[k])

\* the first position at or after i that holds no digit
DigitsEnd(t, i) ==
    CHOOSE j \in i..(Len(t) + 1) :
        /\ j > Len(t) \/ ~IsDigit(t[j])
        /\ \A k \in i..(j - 1) : IsDigit(t[k])

RECURSIVE DigitsValue(_, _, _)
DigitsValue(t, i, j) ==
    IF j <= i THEN 0 ELSE DigitsValue(t, i, j - 1) * 10 + (t[j - 1] - 48)

HasAt(t, i, word) == i + Len(word) - 1 <= Len(t) /\ SubSeq(t, i, i + Len(word) - 1) = word

\* the escape letter after a backslash and the character it stands for
SimpleEscape(c) ==
    CASE c = 34 -> 34 [] c = 92 -> 92 [] c = 47 -> 47 [] c = 98 -> 8
      [] c = 102 -> 12 [] c = 110 -> 10 [] c = 114 -> 13 [] c = 116 -> 9 [] OTHER -> 0

\* i is the position after the opening quote; acc the characters read so far
RECURSIVE ParseString(_, _, _)
ParseString(t, i, acc) ==
    IF i > Len(t) THEN ParseFail
    ELSE IF t[i] = 34 THEN Parsed(Str(acc), i + 1)
    ELSE IF t[i] = 92
         THEN IF i + 1 > Len(t) THEN ParseFail
              ELSE IF SimpleEscape(t[i + 1]) # 0
                   THEN ParseString(t, i + 2, Append(acc, SimpleEscape(t[i + 1])))
              ELSE IF t[i + 1] = 117 /\ i + 5 <= Len(t)
                      /\ \A k \in 2..5 : IsHex(t[i + k])
                   THEN ParseString(t, i + 6,
                            Append(acc, HexVal(t[i + 2]) * 4096 + HexVal(t[i + 3]) * 256
                                        + HexVal(t[i + 4]) * 16 + HexVal(t[i + 5])))
              ELSE ParseFail
    ELSE IF t[i] < 32 THEN ParseFail
    ELSE ParseString(t, i + 1, Append(acc, t[i]))

\* -?(0|[1-9][0-9]*)(\.[0-9]+)?([eE][+-]?[0-9]+)?
ParseNumber(t, i) ==
    LET j == IF t[i] = 45 THEN i + 1 ELSE i
        intEnd == IF j <= Len(t) /\ t[j] = 48 THEN j + 1 ELSE DigitsEnd(t, j)
        fracEnd == IF intEnd <= Len(t) /\ t[intEnd] = 46 THEN DigitsEnd(t, intEnd + 1)
                   ELSE intEnd
        fracOk == fracEnd = intEnd \/ fracEnd > intEnd + 1
        expAt == IF fracEnd <= Len(t) /\ t[fracEnd] \in {101, 69}
                 THEN IF fracEnd + 1 <= Len(t) /\ t[fracEnd + 1] \in {43, 45}
                      THEN fracEnd + 2 ELSE fracEnd + 1
                 ELSE fracEnd
        expEnd == IF expAt = fracEnd THEN fracEnd ELSE DigitsEnd(t, expAt)
        expOk == expAt = fracEnd \/ expEnd > expAt
    IN IF intEnd = j \/ ~fracOk \/ ~expOk THEN ParseFail
       ELSE IF expEnd = intEnd
            THEN Parsed(Num(IF j > i THEN 0 - DigitsValue(t, j, intEnd)
                                     ELSE DigitsValue(t, j, intEnd)), intEnd)
       ELSE Parsed([t |-> "float", v |-> SubSeq(t, i, expEnd - 1)], expEnd)

\* an integer-index key: the decimal form of an integer, no leading zero
IsIndexKey(key) ==
    /\ Len(key) \in 1..9
    /\ \A i \in 1..Len(key) : IsDigit(key[i])
    /\ (Len(key) > 1 => key[1] # 48)

\* the properties with integer-index keys, by ascending index
RECURSIVE IndexProps(_)
IndexProps(props) ==
    IF Len(props) = 0 THEN <<>>
    ELSE LET val(k) == DigitsValue(props[k][1], 1, Len(props[k][1]) + 1)
             m == CHOOSE k \in 1..Len(props) : \A o \in 1..Len(props) : val(k) <= val(o)
         IN <<props[m]>> \o IndexProps([k \in 1..(Len(props) - 1) |->
                                           IF k < m THEN props[k] ELSE props[k + 1]])

\* property order of an object whose properties were created in the order
\* given: integer-index keys first, by ascending index, then the other keys
\* in creation order
OrderProps(props) ==
    IndexProps(SelectSeq(props, LAMBDA pr : IsIndexKey(pr[1])))
    \o SelectSeq(props, LAMBDA pr : ~IsIndexKey(pr[1]))

\* obj[key] = value: an existing key keeps its place, a new one is created
SetProp(props, key, value) ==
    IF \E k \in 1..Len(props) : props[k][1] = key
    THEN [k \in 1..Len(props) |-> IF props[k][1] = key THEN <<key, value>> ELSE props[k]]
    ELSE OrderProps(Append(props, <<key, value>>))

RECURSIVE ParseValue(_, _)
RECURSIVE ParseElems(_, _, _)
RECURSIVE ParseMembers(_, _, _)
ParseValue(t, i0) ==
    LET i == SkipWs(t, i0)
    IN IF i > Len(t) THEN ParseFail
       ELSE IF t[i] = 123
            THEN IF SkipWs(t, i + 1) <= Len(t) /\ t[SkipWs(t, i + 1)] = 125
                 THEN Parsed(Obj(<<>>), SkipWs(t, i + 1) + 1)
                 ELSE ParseMembers(t, i + 1, <<>>)
       ELSE IF t[i] = 91
            THEN IF SkipWs(t, i + 1) <= Len(t) /\ t[SkipWs(t, i + 1)] = 93
                 THEN Parsed(Arr(<<>>), SkipWs(t, i + 1) + 1)
                 ELSE ParseElems(t, i + 1, <<>>)
       ELSE IF t[i] = 34 THEN ParseString(t, i + 1, <<>>)
       ELSE IF t[i] = 45 \/ IsDigit(t[i]) THEN ParseNumber(t, i)
       ELSE IF HasAt(t, i, <<116, 114, 117, 101>>) THEN Parsed(Bool(TRUE), i + 4)
       ELSE IF HasAt(t, i, <<102, 97, 108, 115, 101>>) THEN Parsed(Bool(FALSE), i + 5)
       ELSE IF HasAt(t, i, <<110, 117, 108, 108>>) THEN Parsed(Null, i + 4)
       ELSE ParseFail

\* the elements after '[' or ',': one value, then ',' or ']'
ParseElems(t, i, acc) ==
    LET e == ParseValue(t, i)
    IN IF ~e.ok THEN ParseFail
       ELSE LET j == SkipWs(t, e.pos)
            IN IF j > Len(t) THEN ParseFail
               ELSE IF t[j] = 93 THEN Parsed(Arr(Append(acc, e.val)), j + 1)
               ELSE IF t[j] = 44 THEN ParseElems(t, j + 1, Append(acc, e.val))
               ELSE ParseFail

\* the members after '{' or ',': a string key, ':', a value, then ',' or '}'
ParseMembers(t, i, acc) ==
    LET k == SkipWs(t, i)
    IN IF k > Len(t) \/ t[k] # 34 THEN ParseFail
       ELSE LET key == ParseString(t, k + 1, <<>>)
            IN IF ~key.ok THEN ParseFail
               ELSE LET c == SkipWs(t, key.pos)
                    IN IF c > Len(t) \/ t[c] # 58 THEN ParseFail
                       ELSE LET m == ParseValue(t, c + 1)
                            IN IF ~m.ok THEN ParseFail
                               ELSE LET j == SkipWs(t, m.pos)
                                        props == SetProp(acc, key.val.v, m.val)
                                    IN IF j > Len(t) THEN ParseFail
                                       ELSE IF t[j] = 125 THEN Parsed(Obj(props), j + 1)
                                       ELSE IF t[j] = 44 THEN ParseMembers(t, j + 1, props)
                                       ELSE ParseFail

\* JSON.parse(text): one value with nothing but white space around it;
\* ok = FALSE stands for the SyntaxError it throws
JSONParse(t) ==
    LET r == ParseValue(t, 1)
    IN IF r.ok /\ SkipWs(t, r.pos) > Len(t) THEN r ELSE ParseFail

(***************************************************************************)
(* Validator: protocol combinations (lib/glyph/validator.js)               *)
(***************************************************************************)
\* mutant of PROTOCOL_REQUIREMENTS: WAVE's second requirement (MUT) is dropped
PROTOCOL_REQUIREMENTS_WaveNftOnly ==
    [p \in {GLYPH_DMINT, GLYPH_MUT, GLYPH_CONTAINER, GLYPH_ENCRYPTED,
            GLYPH_TIMELOCK, GLYPH_AUTHORITY, GLYPH_WAVE} |->
        CASE p = GLYPH_DMINT     -> <<GLYPH_FT>>
          [] p = GLYPH_TIMELOCK  -> <<GLYPH_ENCRYPTED>>
          [] OTHER               -> <<GLYPH_NFT>>]

PROTOCOL_REQUIREMENTS ==
    [p \in {GLYPH_DMINT, GLYPH_MUT, GLYPH_CONTAINER, GLYPH_ENCRYPTED,
            GLYPH_TIMELOCK, GLYPH_AUTHORITY, GLYPH_WAVE} |->
        CASE p = GLYPH_DMINT     -> <<GLYPH_FT>>
          [] p = GLYPH_MUT       -> <<GLYPH_NFT>>
          [] p = GLYPH_CONTAINER -> <<GLYPH_NFT>>
          [] p = GLYPH_ENCRYPTED -> <<GLYPH_NFT>>
          [] p = GLYPH_TIMELOCK  -> <<GLYPH_ENCRYPTED>>
          [] p = GLYPH_AUTHORITY -> <<GLYPH_NFT>>
          [] p = GLYPH_WAVE      -> <<GLYPH_NFT, GLYPH_MUT>>]

PROTOCOL_EXCLUSIONS == << <<GLYPH_FT, GLYPH_NFT>> >>

PROTOCOLS_REQUIRE_BASE ==
    <<GLYPH_DMINT, GLYPH_MUT, GLYPH_BURN, GLYPH_CONTAINER, GLYPH_ENCRYPTED,
      GLYPH_TIMELOCK, GLYPH_AUTHORITY, GLYPH_WAVE>>

\* ${ProtocolNames[id]} in a template string: "undefined" for an id without a name
NameOf(id) == IF id \in DOMAIN ProtocolNames THEN ProtocolNames[id] ELSE "undefined"

\* PROTOCOL_REQUIREMENTS[protocol] is defined (array entries are numbers)
HasRequirements(protocol) ==
    protocol.t = "num" /\ protocol.v \in DOMAIN PROTOCOL_REQUIREMENTS

Invalid(msg) == [valid |-> FALSE, error |-> msg]

\* the exclusion loop: the first pair of the table that is wholly present
RECURSIVE ExclusionError(_, _)
ExclusionError(list, k) ==
    IF k > Len(PROTOCOL_EXCLUSIONS) THEN NoResult
    ELSE LET a == PROTOCOL_EXCLUSIONS[k][1]
             b == PROTOCOL_EXCLUSIONS[k][2]
         IN IF Includes(list, a) /\ Includes(list, b)
            THEN Invalid(NameOf(a) \o " and " \o NameOf(b) \o " are mutually exclusive")
            ELSE ExclusionError(list, k + 1)

\* the inner requirement loop of one entry, in table order
RECURSIVE RequirementErrorOf(_, _, _)
RequirementErrorOf(list, protocol, j) ==
    LET requirements == PROTOCOL_REQUIREMENTS[protocol]
    IN IF j > Len(requirements) THEN NoResult
       ELSE IF ~Includes(list, requirements[j])
            THEN Invalid(NameOf(protocol) \o " requires " \o NameOf(requirements[j]))
            ELSE RequirementErrorOf(list, protocol, j + 1)

\* the outer requirement loop, entries in list order
RECURSIVE RequirementError(_, _)
RequirementError(list, i) ==
    IF i > Len(list.v) THEN NoResult
    ELSE LET e == IF HasRequirements(list.v[i])
                  THEN RequirementErrorOf(list, list.v[i].v, 1)
                  ELSE NoResult
         IN IF e # NoResult THEN e ELSE RequirementError(list, i + 1)

\* PROTOCOLS_REQUIRE_BASE.includes(protocols[0])
RequiresBase(protocol) ==
    \E k \in 1..Len(PROTOCOLS_REQUIRE_BASE) : protocol = Num(PROTOCOLS_REQUIRE_BASE[k])

\* mutant of validateProtocols: the dependency scan runs before the exclusion check
validateProtocols_DependencyFirst(list) ==
    IF ~IsArray(list) \/ Len(list.v) = 0 THEN Invalid("Protocols array is required")
    ELSE IF Len(list.v) > MAX_PROTOCOLS THEN Invalid("Too many protocols (max 16)")
    ELSE IF RequirementError(list, 1) # NoResult THEN RequirementError(list, 1)
    ELSE IF ExclusionError(list, 1) # NoResult THEN ExclusionError(list, 1)
    ELSE IF Len(list.v) = 1 /\ RequiresBase(list.v[1])
         THEN Invalid(NameOf(list.v[1].v) \o " cannot exist alone")
    ELSE IF Includes(list, GLYPH_BURN)
            /\ ~Includes(list, GLYPH_FT) /\ ~Includes(list, GLYPH_NFT)
         THEN Invalid("Burn must accompany Fungible Token or Non-Fungible Token")
    ELSE [valid |-> TRUE]

\* the standalone rule runs before the requirement scan
validateProtocols_StandaloneFirst(list) ==
    IF ~IsArray(list) \/ Len(list.v) = 0 THEN Invalid("Protocols array is required")
    ELSE IF Len(list.v) > MAX_PROTOCOLS THEN Invalid("Too many protocols (max 16)")
    ELSE IF ExclusionError(list, 1) # NoResult THEN ExclusionError(list, 1)
    ELSE IF Len(list.v) = 1 /\ RequiresBase(list.v[1])
         THEN Invalid(NameOf(list.v[1].v) \o " cannot exist alone")
    ELSE IF RequirementError(list, 1) # NoResult THEN RequirementError(list, 1)
    ELSE IF Includes(list, GLYPH_BURN)
            /\ ~Includes(list, GLYPH_FT) /\ ~Includes(list, GLYPH_NFT)
         THEN Invalid("Burn must accompany Fungible Token or Non-Fungible Token")
    ELSE [valid |-> TRUE]

\* the rule that BURN must accompany FT or NFT is missing
validateProtocols_NoBurnRule(list) ==
    IF ~IsArray(list) \/ Len(list.v) = 0 THEN Invalid("Protocols array is required")
    ELSE IF Len(list.v) > MAX_PROTOCOLS THEN Invalid("Too many protocols (max 16)")
    ELSE IF ExclusionError(list, 1) # NoResult THEN ExclusionError(list, 1)
    ELSE IF RequirementError(list, 1) # NoResult THEN RequirementError(list, 1)
    ELSE IF Len(list.v) = 1 /\ RequiresBase(list.v[1])
         THEN Invalid(NameOf(list.v[1].v) \o " cannot exist alone")
    ELSE [valid |-> TRUE]

\* the standalone rule asks for the first entry whatever the length of the list
validateProtocols_BaseFirst(list) ==
    IF ~IsArray(list) \/ Len(list.v) = 0 THEN Invalid("Protocols array is required")
    ELSE IF Len(list.v) > MAX_PROTOCOLS THEN Invalid("Too many protocols (max 16)")
    ELSE IF ExclusionError(list, 1) # NoResult THEN ExclusionError(list, 1)
    ELSE IF RequirementError(list, 1) # NoResult THEN RequirementError(list, 1)
    ELSE IF RequiresBase(list.v[1])
         THEN Invalid(NameOf(list.v[1].v) \o " cannot exist alone")
    ELSE IF Includes(list, GLYPH_BURN)
            /\ ~Includes(list, GLYPH_FT) /\ ~Includes(list, GLYPH_NFT)
         THEN Invalid("Burn must accompany Fungible Token or Non-Fungible Token")
    ELSE [valid |-> TRUE]

validateProtocols(list) ==
    IF ~IsArray(list) \/ Len(list.v) = 0 THEN Invalid("Protocols array is required")
    ELSE IF Len(list.v) > MAX_PROTOCOLS THEN Invalid("Too many protocols (max 16)")
    ELSE IF ExclusionError(list, 1) # NoResult THEN ExclusionError(list, 1)
    ELSE IF RequirementError(list, 1) # NoResult THEN RequirementError(list, 1)
    ELSE IF Len(list.v) = 1 /\ RequiresBase(list.v[1])
         THEN Invalid(NameOf(list.v[1].v) \o " cannot exist alone")
    ELSE IF Includes(list, GLYPH_BURN)
            /\ ~Includes(list, GLYPH_FT) /\ ~Includes(list, GLYPH_NFT)
         THEN Invalid("Burn must accompany Fungible Token or Non-Fungible Token")
    ELSE [valid |-> TRUE]

(***************************************************************************)
(* Protocol lists a caller can pass: every list of at most MaxProtocolLen  *)
(* entries, and lists of exactly 16 and 17 entries (a short seed followed  *)
(* by copies of one id), over the eleven tags and two undefined ids; and   *)
(* values that are no array at all.                                        *)
(***************************************************************************)
ProtocolIds == GlyphProtocol \cup {0, 12}

Padded(seed, pad, n) == seed \o Repeat(pad, n - Len(seed))

ProtocolLists ==
    SeqsUpTo(ProtocolIds, MaxProtocolLen)
    \cup {Padded(seed, pad, n) : seed \in SeqsUpTo(GlyphProtocol, MaxSeedLen),
                                 pad \in GlyphProtocol,
                                 n \in {MAX_PROTOCOLS, MAX_PROTOCOLS + 1}}

NonArrays == {Undefined, Null, Num(GLYPH_NFT), Str(<<50>>), Bool(TRUE), Obj(<<>>)}

InitProtocols ==
    /\ op = "init"
    /\ protocols \in {NumArr(list) : list \in ProtocolLists} \cup NonArrays
    /\ options = Undefined
    /\ metadata = Undefined
    /\ scriptBuf = Undefined
    /\ twin = Undefined
    /\ calls = <<>>
    /\ tx = Undefined
    /\ result = NoResult

ValidateProtocols ==
    /\ op = "init"
    /\ op' = "validateProtocols"
    /\ result' = validateProtocols(protocols)
    /\ UNCHANGED <<protocols, options, metadata, twin, calls, scriptBuf, tx>>

NextProtocols == ValidateProtocols

SpecProtocols == InitProtocols /\ [][NextProtocols]_vars

(***************************************************************************)
(* Claims about validateProtocols                                          *)
(***************************************************************************)
\* the call under test has returned for a list of defined protocol tags
ValidatedTags ==
    /\ op = "validateProtocols"
    /\ IsArray(protocols)
    /\ \A i \in 1..Len(protocols.v) : protocols.v[i].v \in GlyphProtocol

C1_Rules(L) ==
    LET Has(x) == \E i \in 1..Len(L) : L[i] = x
    IN /\ Len(L) > 0 /\ Len(L) <= 16
       /\ ~(Has(GLYPH_FT) /\ Has(GLYPH_NFT))
       /\ (Has(GLYPH_DMINT) => Has(GLYPH_FT))
       /\ \A x \in {GLYPH_MUT, GLYPH_CONTAINER, GLYPH_ENCRYPTED, GLYPH_AUTHORITY} :
              Has(x) => Has(GLYPH_NFT)
       /\ (Has(GLYPH_TIMELOCK) => Has(GLYPH_ENCRYPTED))
       /\ (Has(GLYPH_WAVE) => Has(GLYPH_NFT) /\ Has(GLYPH_MUT))
       /\ ~(Len(L) = 1 /\ L[1] \in {GLYPH_DMINT, GLYPH_MUT, GLYPH_BURN, GLYPH_CONTAINER,
                                     GLYPH_ENCRYPTED, GLYPH_TIMELOCK, GLYPH_AUTHORITY,
                                     GLYPH_WAVE})
       /\ (Has(GLYPH_BURN) => Has(GLYPH_FT) \/ Has(GLYPH_NFT))

C1_ValidExamples ==
    {<<1>>, <<2>>, <<1, 4>>, <<2, 5>>, <<2, 8, 9>>, <<2, 5, 11>>, <<1, 6>>, <<2, 6>>}

C1_InvalidExamples == {<<1, 2>>, <<4>>, <<5>>, <<9>>, <<11>>, <<6>>}

\* C1: for every list of protocol tags 1..11, validateProtocols(L).valid is
\* true exactly when L is non-empty with at most 16 entries, FT and NFT do
\* not co-occur, every dependency (DMINT->FT; MUT, CONTAINER, ENCRYPTED,
\* AUTHORITY->NFT; TIMELOCK->ENCRYPTED; WAVE->NFT and MUT) is met, L is not a
\* lone standalone-forbidden tag, and BURN comes with FT or NFT; the listed
\* example lists are valid / invalid as stated.
C1_ValidExactlyWhenRulesHold ==
    ValidatedTags =>
        /\ result.valid <=> C1_Rules(Ids(protocols))
        /\ (Ids(protocols) \in C1_ValidExamples => result.valid)
        /\ (Ids(protocols) \in C1_InvalidExamples => ~result.valid)

C1_Witness ==
    /\ ValidatedTags
    /\ Ids(protocols) = <<GLYPH_NFT, GLYPH_MUT, GLYPH_WAVE>>
    /\ result.valid

\* the first unmet (entry, requirement) pair: entries in list order, the
\* entry's requirements in table order
C2_Unmet(L) ==
    {ij \in (1..Len(L)) \X (1..2) :
        /\ L[ij[1]] \in DOMAIN PROTOCOL_REQUIREMENTS
        /\ ij[2] <= Len(PROTOCOL_REQUIREMENTS[L[ij[1]]])
        /\ \A k \in 1..Len(L) : L[k] # PROTOCOL_REQUIREMENTS[L[ij[1]]][ij[2]]}

C2_FirstUnmet(L) ==
    CHOOSE ij \in C2_Unmet(L) :
        \A other \in C2_Unmet(L) :
            ij[1] < other[1] \/ (ij[1] = other[1] /\ ij[2] <= other[2])

\* the one error the fixed evaluation order prescribes, "" when no rule is violated
C2_Expected(x) ==
    IF ~IsArray(x) \/ Len(x.v) = 0 THEN "Protocols array is required"
    ELSE LET L == Ids(x)
             Has(id) == \E i \in 1..Len(L) : L[i] = id
         IN IF Len(L) > 16 THEN "Too many protocols (max 16)"
            ELSE IF Has(GLYPH_FT) /\ Has(GLYPH_NFT)
                 THEN "Fungible Token and Non-Fungible Token are mutually exclusive"
            ELSE IF C2_Unmet(L) # {}
                 THEN LET ij == C2_FirstUnmet(L)
                      IN ProtocolNames[L[ij[1]]] \o " requires "
                         \o ProtocolNames[PROTOCOL_REQUIREMENTS[L[ij[1]]][ij[2]]]
            ELSE IF Len(L) = 1 /\ L[1] \in {4, 5, 6, 7, 8, 9, 10, 11}
                 THEN ProtocolNames[L[1]] \o " cannot exist alone"
            ELSE IF Has(GLYPH_BURN) /\ ~Has(GLYPH_FT) /\ ~Has(GLYPH_NFT)
                 THEN "Burn must accompany Fungible Token or Non-Fungible Token"
            ELSE ""

IsThrew(x) == "threw" \in DOMAIN x

\* x | bit and x & bit for a one-bit mask
BitSet(x, bit) == (x \div bit) % 2 = 1
BitOr(x, bit) == IF BitSet(x, bit) THEN x ELSE x + bit

\* buf.indexOf(needle): the 0-based offset of the first occurrence, -1 if none
MatchesAt(buf, needle, i) == \A k \in 1..Len(needle) : buf[i + k] = needle[k]

IndexOf(buf, needle) ==
    IF \E i \in 0..(Len(buf) - Len(needle)) : MatchesAt(buf, needle, i)
    THEN CHOOSE i \in 0..(Len(buf) - Len(needle)) :
            /\ MatchesAt(buf, needle, i)
            /\ \A j \in 0..(i - 1) : ~MatchesAt(buf, needle, j)
    ELSE -1

\* new BufferReader(buf)
NewReader(buf) == [buf |-> buf, pos |-> 0]

\* a read past the end returns the bytes that are left
ReaderRead_Lenient(reader, len) ==
    LET end == IF reader.pos + len > Len(reader.buf) THEN Len(reader.buf)
               ELSE reader.pos + len
    IN [val |-> SubSeq(reader.buf, reader.pos + 1, end),
        reader |-> [reader EXCEPT !.pos = reader.pos + len]]

\* reader.read(len): the next len bytes; reading past the end fails
ReaderRead(reader, len) ==
    IF reader.pos + len > Len(reader.buf) THEN Threw("Error")
    ELSE [val |-> SubSeq(reader.buf, reader.pos + 1, reader.pos + len),
          reader |-> [reader EXCEPT !.pos = reader.pos + len]]

\* reader.readUInt8(): buf.readUInt8(pos) raises a RangeError past the end
ReaderReadUInt8(reader) ==
    IF reader.pos + 1 > Len(reader.buf) THEN Threw("RangeError")
    ELSE [val |-> reader.buf[reader.pos + 1],
          reader |-> [reader EXCEPT !.pos = reader.pos + 1]]

\* reader.readAll(): everything from pos to the end
ReaderReadAll(reader) == SubSeq(reader.buf, reader.pos + 1, Len(reader.buf))

(***************************************************************************)
(* Encoder: commit envelope (lib/glyph/encoder.js)                         *)
(*                                                                         *)
(* The options object is a record of JS values, Undefined for a field the  *)
(* caller left out.                                                        *)
(***************************************************************************)
\* the flags byte written: flags | HAS_CONTENT_ROOT | HAS_CONTROLLER as present
ActualFlags(flags, contentRoot, controller) ==
    LET f1 == IF Truthy(contentRoot) THEN BitOr(flags, HAS_CONTENT_ROOT) ELSE flags
    IN IF Truthy(controller) THEN BitOr(f1, HAS_CONTROLLER) ELSE f1

\* encodeCommitEnvelope that accepts a commit hash of any length
encodeCommitEnvelope_AnyLength(o) ==
    LET flags == IF o.flags = Undefined THEN 0 ELSE o.flags.v
    IN IF ~Truthy(o.commitHash)
       THEN Threw("Invalid commit hash")
       ELSE Buf(GLYPH_MAGIC
                \o <<GlyphVersion_V2>>
                \o <<ActualFlags(flags, o.contentRoot, o.controller)>>
                \o o.commitHash.v
                \o (IF Truthy(o.contentRoot) THEN o.contentRoot.v ELSE <<>>)
                \o (IF Truthy(o.controller) THEN o.controller.v ELSE <<>>))

encodeCommitEnvelope(o) ==
    LET flags == IF o.flags = Undefined THEN 0 ELSE o.flags.v
    IN IF ~Truthy(o.commitHash) \/ Len(o.commitHash.v) # COMMIT_HASH_SIZE
       THEN Threw("Invalid commit hash")
       ELSE Buf(GLYPH_MAGIC
                \o <<GlyphVersion_V2>>
                \o <<ActualFlags(flags, o.contentRoot, o.controller)>>
                \o o.commitHash.v
                \o (IF Truthy(o.contentRoot) THEN o.contentRoot.v ELSE <<>>)
                \o (IF Truthy(o.controller) THEN o.controller.v ELSE <<>>))

(***************************************************************************)
(* Decoder (lib/glyph/decoder.js)                                          *)
(***************************************************************************)
\* a record with one more field
WithField(rec, name, value) == rec @@ (name :> value)

\* mutant of decodeCommitEnvelope: the controller is read before the content root
decodeCommitEnvelope_ControllerFirst(reader, version, flags) ==
    LET hash == ReaderRead(reader, COMMIT_HASH_SIZE)
    IN IF IsThrew(hash) THEN hash
       ELSE
       LET base == [type |-> "commit", isReveal |-> FALSE, version |-> version,
                    flags |-> flags, commitHash |-> Buf(hash.val)]
           ctrl == IF BitSet(flags, HAS_CONTROLLER)
                   THEN ReaderRead(hash.reader, CONTROLLER_SIZE)
                   ELSE [val |-> <<>>, reader |-> hash.reader]
       IN IF IsThrew(ctrl) THEN ctrl
          ELSE
          LET withCtrl == IF BitSet(flags, HAS_CONTROLLER)
                          THEN WithField(base, "controller", Buf(ctrl.val))
                          ELSE base
              root == IF BitSet(flags, HAS_CONTENT_ROOT)
                      THEN ReaderRead(ctrl.reader, CONTENT_ROOT_SIZE)
                      ELSE [val |-> <<>>, reader |-> ctrl.reader]
          IN IF IsThrew(root) THEN root
             ELSE IF BitSet(flags, HAS_CONTENT_ROOT)
                  THEN WithField(withCtrl, "contentRoot", Buf(root.val))
                  ELSE withCtrl

decodeCommitEnvelope(reader, version, flags) ==
    LET hash == ReaderRead(reader, COMMIT_HASH_SIZE)
    IN IF IsThrew(hash) THEN hash
       ELSE
       LET base == [type |-> "commit", isReveal |-> FALSE, version |-> version,
                    flags |-> flags, commitHash |-> Buf(hash.val)]
           root == IF BitSet(flags, HAS_CONTENT_ROOT)
                   THEN ReaderRead(hash.reader, CONTENT_ROOT_SIZE)
                   ELSE [val |-> <<>>, reader |-> hash.reader]
       IN IF IsThrew(root) THEN root
          ELSE
          LET withRoot == IF BitSet(flags, HAS_CONTENT_ROOT)
                          THEN WithField(base, "contentRoot", Buf(root.val))
                          ELSE base
              ctrl == IF BitSet(flags, HAS_CONTROLLER)
                      THEN ReaderRead(root.reader, CONTROLLER_SIZE)
                      ELSE [val |-> <<>>, reader |-> root.reader]
          IN IF IsThrew(ctrl) THEN ctrl
             ELSE IF BitSet(flags, HAS_CONTROLLER)
                  THEN WithField(withRoot, "controller", Buf(ctrl.val))
                  ELSE withRoot

\* a body that does not parse fails the whole decode
decodeRevealEnvelope_ParseOrNothing(reader, version, flags) ==
    LET base == [type |-> "reveal", isReveal |-> TRUE, version |-> version,
                 flags |-> flags, metadata |-> Null, files |-> Arr(<<>>)]
        remaining == ReaderReadAll(reader)
        parsed == JSONParse(Utf8Decode(remaining))
    IN IF Len(remaining) > 0
       THEN IF parsed.ok THEN [base EXCEPT !.metadata = parsed.val]
            ELSE Threw("SyntaxError")
       ELSE base

decodeRevealEnvelope(reader, version, flags) ==
    LET base == [type |-> "reveal", isReveal |-> TRUE, version |-> version,
                 flags |-> flags, metadata |-> Null, files |-> Arr(<<>>)]
        remaining == ReaderReadAll(reader)
        parsed == JSONParse(Utf8Decode(remaining))
    IN IF Len(remaining) > 0
       THEN IF parsed.ok THEN [base EXCEPT !.metadata = parsed.val]
            ELSE WithField(base, "rawMetadata", Buf(remaining))
       ELSE base

\* the body of the try block of decodeEnvelope, magicIndex >= 0
DecodeAt(scriptBytes, magicIndex) ==
    LET reader == NewReader(SubSeq(scriptBytes, magicIndex + 1, Len(scriptBytes)))
        magic == ReaderRead(reader, 3)
    IN IF IsThrew(magic) THEN magic
       ELSE
       LET version == ReaderReadUInt8(magic.reader)
       IN IF IsThrew(version) THEN version
          ELSE IF version.val # GlyphVersion_V1 /\ version.val # GlyphVersion_V2 THEN Null
          ELSE
          LET flags == ReaderReadUInt8(version.reader)
          IN IF IsThrew(flags) THEN flags
             ELSE IF BitSet(flags.val, IS_REVEAL)
                  THEN decodeRevealEnvelope(flags.reader, version.val, flags.val)
                  ELSE decodeCommitEnvelope(flags.reader, version.val, flags.val)

\* mutant of decodeEnvelope: the try/catch is missing
decodeEnvelope_NoCatch(buf) ==
    IF IndexOf(buf.v, GLYPH_MAGIC) = -1 THEN Null
    ELSE DecodeAt(buf.v, IndexOf(buf.v, GLYPH_MAGIC))

\* parsing starts at the last occurrence of the magic
decodeEnvelope_LastMagic(buf) ==
    LET at == {i \in 0..(Len(buf.v) - 3) : MatchesAt(buf.v, GLYPH_MAGIC, i)}
        magicIndex == IF at = {} THEN -1 ELSE CHOOSE i \in at : \A j \in at : j <= i
    IN IF magicIndex = -1 THEN Null
       ELSE LET r == DecodeAt(buf.v, magicIndex)
            IN IF IsThrew(r) THEN Null ELSE r

decodeEnvelope(buf) ==
    LET magicIndex == IndexOf(buf.v, GLYPH_MAGIC)
    IN IF magicIndex = -1 THEN Null
       ELSE LET r == DecodeAt(buf.v, magicIndex)
            IN IF IsThrew(r) THEN Null ELSE r

DecodeEnvelope ==
    /\ op \in {"init", "encodeCommitEnvelope", "concat"}
    /\ scriptBuf.t = "buf"
    /\ op' = "decodeEnvelope"
    /\ result' = decodeEnvelope(scriptBuf)
    /\ UNCHANGED <<protocols, options, metadata, twin, calls, scriptBuf, tx>>

(***************************************************************************)
(* Script buffers an observer can meet: every buffer of at most MaxBufLen  *)
(* bytes over the magic's own bytes, a version and the reveal flag; a      *)
(* magic after at most one byte, followed by at most MaxTailLen header and *)
(* body bytes; and commit headers followed by bodies of the lengths around *)
(* the field boundaries, of one repeated byte and of counting bytes; and   *)
(* a magic, at most two bytes, and then a well-formed envelope.            *)
(***************************************************************************)
MagicAlphabet == {103, 108, 121, 2, 128}

\* versions 1, 2 and an unknown one; flag bytes; '1', a body that parses
TailAlphabet == {1, 2, 3, 128, 49, 103}

CommitBodyLens == {31, 32, 33, 63, 64, 67, 68, 99, 100, 101}

\* the bytes 1, 2, .., n
Counting(n) == [i \in 1..n |-> i % 256] \o <<>>

\* what can stand between a first magic and a second one: nothing, versions
\* 2 and 3, flag bytes 0 and 0x80
MidAlphabet == {0, 2, 3, 128}

\* well-formed envelopes: a reveal with the body '1', a commit with a hash
LaterEnvelopes ==
    {GLYPH_MAGIC \o <<GlyphVersion_V2, IS_REVEAL, 49>>,
     GLYPH_MAGIC \o <<GlyphVersion_V2, 0>> \o Counting(COMMIT_HASH_SIZE)}

ScriptBuffers ==
    SeqsUpTo(MagicAlphabet, MaxBufLen)
    \cup {pre \o GLYPH_MAGIC \o tail : pre \in SeqsUpTo(TailAlphabet, 1),
                                      tail \in SeqsUpTo(TailAlphabet, MaxTailLen)}
    \cup {GLYPH_MAGIC \o <<v, f>> \o body :
            v \in {GlyphVersion_V1, GlyphVersion_V2}, f \in 0..3,
            body \in UNION {{Repeat(170, n), Counting(n)} : n \in CommitBodyLens}}
    \cup {GLYPH_MAGIC \o mid \o later : mid \in SeqsUpTo(MidAlphabet, 2),
                                        later \in LaterEnvelopes}

InitDecode ==
    /\ op = "init"
    /\ scriptBuf \in {Buf(b) : b \in ScriptBuffers}
    /\ protocols = Undefined
    /\ options = Undefined
    /\ metadata = Undefined
    /\ twin = Undefined
    /\ calls = <<>>
    /\ tx = Undefined
    /\ result = NoResult

NextDecode == DecodeEnvelope

SpecDecode == InitDecode /\ [][NextDecode]_vars

\* the 0-based offset of the first magic in a byte sequence, -1 if there is none
FirstMagic(b) ==
    LET at == {i \in 0..(Len(b) - 3) : b[i + 1] = 103 /\ b[i + 2] = 108 /\ b[i + 3] = 121}
    IN IF at = {} THEN -1 ELSE CHOOSE i \in at : \A j \in at : i <= j

IsEnvelope(x) == "type" \in DOMAIN x /\ x.type \in {"commit", "reveal"}

\* C3: decodeEnvelope never throws: for every byte buffer it returns null or
\* a parsed envelope structure, and it returns null when the buffer holds no
\* magic, when fewer than two bytes follow the first magic, and when the
\* version byte is neither 1 nor 2.
C3_DecodeNeverThrows ==
    op = "decodeEnvelope" =>
        LET b == scriptBuf.v
            m == FirstMagic(b)
        IN /\ result = Null \/ IsEnvelope(result)
           /\ (m = -1 => result = Null)
           /\ (m >= 0 /\ Len(b) - (m + 3) < 2 => result = Null)
           /\ (m >= 0 /\ Len(b) - (m + 3) >= 2 /\ b[m + 4] \notin {1, 2} => result = Null)

\* a magic followed by a version byte only: the flags read runs off the end
C3_Witness ==
    /\ op = "decodeEnvelope"
    /\ scriptBuf = Buf(<<103, 108, 121, 2>>)
    /\ result = Null

(***************************************************************************)
(* Commit options a caller can pass.  A field of n bytes is filled with    *)
(* the pattern k: byte i is k * i mod 256 (all zeros for k = 0), or with a *)
(* copy of the magic at its start.                                         *)
(***************************************************************************)
Pattern(k, n) == [i \in 1..n |-> (k * i) % 256]

FieldBytes(n) == {Pattern(k, n) : k \in 0..MaxPattern} \cup {GLYPH_MAGIC \o Pattern(1, n - 3)}

FlagSamples ==
    {0, HAS_CONTENT_ROOT, HAS_CONTROLLER, HAS_CONTENT_ROOT + HAS_CONTROLLER,
     HAS_PROFILE_HINT, IS_REVEAL, 255}

CommitOptions ==
    [commitHash : {Undefined} \cup {Buf(b) : b \in FieldBytes(COMMIT_HASH_SIZE)
                                              \cup {Pattern(1, COMMIT_HASH_SIZE - 1),
                                                    Pattern(1, COMMIT_HASH_SIZE + 1)}},
     flags : {Undefined} \cup {Num(f) : f \in FlagSamples},
     contentRoot : {Undefined} \cup {Buf(b) : b \in FieldBytes(CONTENT_ROOT_SIZE)},
     controller : {Undefined} \cup {Buf(b) : b \in FieldBytes(CONTROLLER_SIZE)}]

IsCommitOptions(o) == "commitHash" \in DOMAIN o

InitCommit ==
    /\ op = "init"
    /\ options \in CommitOptions
    /\ protocols = Undefined
    /\ metadata = Undefined
    /\ scriptBuf = Undefined
    /\ twin = Undefined
    /\ calls = <<>>
    /\ tx = Undefined
    /\ result = NoResult

\* the caller keeps the returned buffer as the script buffer to decode
EncodeCommitEnvelope ==
    /\ op = "init"
    /\ IsCommitOptions(options)
    /\ op' = "encodeCommitEnvelope"
    /\ result' = encodeCommitEnvelope(options)
    /\ scriptBuf' = IF IsThrew(result') THEN scriptBuf ELSE result'
    /\ UNCHANGED <<protocols, options, metadata, twin, calls, tx>>

NextCommit == EncodeCommitEnvelope \/ DecodeEnvelope

SpecCommit == InitCommit /\ [][NextCommit]_vars

\* C4: commit round trip: for every 32-byte hash H, optional 32-byte
\* contentRoot R and optional 36-byte controller C, flags left at the default,
\* decodeEnvelope(encodeCommitEnvelope(..)) is a commit envelope (isReveal
\* false, version 2) with commitHash = H, contentRoot present and equal to R
\* exactly when R was supplied, controller present and equal to C exactly when
\* C was supplied, and flag bits 0 and 1 set exactly for the supplied fields.
C4_CommitRoundTrip ==
    (/\ op = "decodeEnvelope"
     /\ IsCommitOptions(options)
     /\ options.flags = Undefined) =>
        /\ IsEnvelope(result)
        /\ result.type = "commit"
        /\ result.isReveal = FALSE
        /\ result.version = 2
        /\ result.commitHash = options.commitHash
        /\ ("contentRoot" \in DOMAIN result) <=> (options.contentRoot # Undefined)
        /\ ("contentRoot" \in DOMAIN result => result.contentRoot = options.contentRoot)
        /\ ("controller" \in DOMAIN result) <=> (options.controller # Undefined)
        /\ ("controller" \in DOMAIN result => result.controller = options.controller)
        /\ BitSet(result.flags, 1) <=> (options.contentRoot # Undefined)
        /\ BitSet(result.flags, 2) <=> (options.controller # Undefined)
        /\ result.flags \in 0..3

C4_Witness ==
    /\ op = "decodeEnvelope"
    /\ IsCommitOptions(options)
    /\ options.flags = Undefined
    /\ options.contentRoot = Buf(Pattern(1, 32))
    /\ options.controller = Buf(Pattern(2, 36))
    /\ result.contentRoot = Buf(Pattern(1, 32))
    /\ result.controller = Buf(Pattern(2, 36))
    /\ result.flags = 3

\* C6: for every successful encodeCommitEnvelope call, with any caller flags,
\* the emitted flags byte has bit0 set iff content-root bytes are in the
\* output and bit1 set iff controller bytes are, and the output is exactly
\* magic | version | flags | commitHash | [contentRoot] | [controller], of
\* length 37 + 32*bit0 + 36*bit1.
C6_FlagsReflectFields ==
    (op = "encodeCommitEnvelope" /\ ~IsThrew(result)) =>
        LET out == result.v
            f == out[5]
            bit0 == IF BitSet(f, 1) THEN 1 ELSE 0
            bit1 == IF BitSet(f, 2) THEN 1 ELSE 0
            R == IF options.contentRoot = Undefined THEN <<>> ELSE options.contentRoot.v
            C == IF options.controller = Undefined THEN <<>> ELSE options.controller.v
        IN /\ (bit0 = 1) <=> (options.contentRoot # Undefined)
           /\ (bit1 = 1) <=> (options.controller # Undefined)
           /\ out = <<103, 108, 121, 2, f>> \o options.commitHash.v \o R \o C
           /\ Len(out) = 37 + 32 * bit0 + 36 * bit1

(***************************************************************************)
(* Metadata encoder (lib/glyph/encoder.js)                                 *)
(***************************************************************************)
\* the property names the core reads and writes, as code-point sequences
K_v == <<118>>
K_type == <<116, 121, 112, 101>>
K_p == <<112>>
K_name == <<110, 97, 109, 101>>
K_desc == <<100, 101, 115, 99>>
K_ticker == <<116, 105, 99, 107, 101, 114>>
K_content == <<99, 111, 110, 116, 101, 110, 116>>
K_primary == <<112, 114, 105, 109, 97, 114, 121>>
K_files == <<102, 105, 108, 101, 115>>
K_refs == <<114, 101, 102, 115>>
K_path == <<112, 97, 116, 104>>
K_mime == <<109, 105, 109, 101>>
K_size == <<115, 105, 122, 101>>
K_hash == <<104, 97, 115, 104>>
K_algo == <<97, 108, 103, 111>>
K_hex == <<104, 101, 120>>
K_uri == <<117, 114, 105>>
K_container == <<99, 111, 110, 116, 97, 105, 110, 101, 114>>
K_dmint == <<100, 109, 105, 110, 116>>
K_authority == <<97, 117, 116, 104, 111, 114, 105, 116, 121>>
K_crypto == <<99, 114, 121, 112, 116, 111>>
K_royalty == <<114, 111, 121, 97, 108, 116, 121>>
K_bps == <<98, 112, 115>>
K_address == <<97, 100, 100, 114, 101, 115, 115>>
K_splits == <<115, 112, 108, 105, 116, 115>>

MAX_METADATA_SIZE == 262144
MAX_INLINE_FILE_SIZE == 1048576

\* a < b in the order of Array.prototype.sort() on strings: code unit by
\* code unit, a proper prefix first
LexLess(a, b) ==
    \E i \in 1..(Len(a) + 1) :
        /\ \A k \in 1..(i - 1) : k <= Len(b) /\ a[k] = b[k]
        /\ \/ i > Len(a) /\ i <= Len(b)
           \/ i <= Len(a) /\ i <= Len(b) /\ a[i] < b[i]

\* Object.keys(obj).sort(): the properties of obj by ascending key
RECURSIVE SortedByKey(_)
SortedByKey(props) ==
    IF Len(props) = 0 THEN <<>>
    ELSE LET m == CHOOSE k \in 1..Len(props) :
                      \A o \in 1..Len(props) : o = k \/ LexLess(props[k][1], props[o][1])
         IN <<props[m]>> \o SortedByKey([k \in 1..(Len(props) - 1) |->
                                            IF k < m THEN props[k] ELSE props[k + 1]])

\* the own enumerable properties of a Buffer: its bytes under their indices
BufferProps(bytes) == [i \in 1..Len(bytes) |-> <<Decimal(i - 1), Num(bytes[i])>>]

\* mutant of canonicalizeObject: the keys are not sorted
RECURSIVE canonicalizeObject_Unsorted(_)
canonicalizeObject_Unsorted(obj) ==
    CASE obj.t = "arr" -> Arr([i \in 1..Len(obj.v) |-> canonicalizeObject_Unsorted(obj.v[i])])
      [] obj.t = "obj" ->
           Obj(OrderProps([k \in 1..Len(obj.v) |->
                   <<obj.v[k][1], canonicalizeObject_Unsorted(obj.v[k][2])>>]))
      [] obj.t = "buf" -> Obj(BufferProps(obj.v))
      [] OTHER -> obj

RECURSIVE canonicalizeObject(_)
canonicalizeObject(obj) ==
    CASE obj.t = "arr" -> Arr([i \in 1..Len(obj.v) |-> canonicalizeObject(obj.v[i])])
      [] obj.t = "obj" ->
           LET sorted == SortedByKey(obj.v)
           IN Obj(OrderProps([k \in 1..Len(sorted) |->
                      <<sorted[k][1], canonicalizeObject(sorted[k][2])>>]))
      [] obj.t = "buf" -> Obj(BufferProps(obj.v))
      [] OTHER -> obj

\* what a call leaves: the value returned (or that it threw) and the
\* metadata object as the call left it
Outcome(ret, md) == [ret |-> ret, metadata |-> md]

\* encodeMetadata that writes version 2 whether or not a version is set
encodeMetadata_AlwaysV2(md) ==
    IF ~CanRead(md) THEN Outcome(Threw("TypeError"), md)
    ELSE LET versioned == Obj(SetProp(md.v, K_v, Num(GlyphVersion_V2)))
         IN Outcome(Buf(Utf8Encode(Stringify(canonicalizeObject(versioned)))), versioned)

\* encodeMetadata of undefined or null raises a TypeError at metadata.v; of
\* an object it sets v where v is missing or falsy and returns the UTF-8
\* bytes of the canonical JSON text
encodeMetadata(md) ==
    IF ~CanRead(md) THEN Outcome(Threw("TypeError"), md)
    ELSE LET versioned == IF ~Truthy(Get(md, K_v))
                          THEN Obj(SetProp(md.v, K_v, Num(GlyphVersion_V2)))
                          ELSE md
             canonical == canonicalizeObject(versioned)
             jsonStr == Stringify(canonical)
         IN Outcome(Buf(Utf8Encode(jsonStr)), versioned)

\* Hash.sha256 (lib/crypto/hash.js): a fixed function from byte sequences to
\* 32-byte digests; the digest here is a position-weighted checksum
Sha256(bytes) ==
    [i \in 1..32 |->
        (SumRange([j \in 1..Len(bytes) |-> bytes[j] * (i + j)], 1, Len(bytes))
         + Len(bytes) * i) % 256]

\* computeCommitHash hashes a Buffer as it is and anything else through
\* encodeMetadata
computeCommitHash(md) ==
    IF md.t = "buf" THEN Outcome(Buf(Sha256(md.v)), md)
    ELSE LET enc == encodeMetadata(md)
         IN IF IsThrew(enc.ret) THEN enc
            ELSE Outcome(Buf(Sha256(enc.ret.v)), enc.metadata)

\* file.length of a file entry: only a Buffer, a string or an array has one
HasLength(file) == file.t \in {"buf", "str", "arr"}

\* the index of the first file the loop of encodeRevealEnvelope stops at: an
\* entry whose length cannot be read, or one over the inline limit; 0 if none
FirstBadFile(files) ==
    LET bad == {i \in 1..Len(files) :
                   \/ ~CanRead(files[i])
                   \/ HasLength(files[i]) /\ Len(files[i].v) > MAX_INLINE_FILE_SIZE}
    IN IF bad = {} THEN 0 ELSE CHOOSE i \in bad : \A j \in bad : i <= j

\* encodeRevealEnvelopeB({metadata: md, files: o.files}): the magic alone as
\* the first chunk, no size checks
encodeRevealEnvelopeB(o, md) ==
    LET files == IF o.files.t = "undefined" THEN <<>> ELSE o.files.v
        enc == IF md.t = "buf" THEN Outcome(md, md) ELSE encodeMetadata(md)
    IN IF IsThrew(enc.ret) THEN enc
       ELSE Outcome(Arr(<<Buf(GLYPH_MAGIC), enc.ret>> \o files), enc.metadata)

\* encodeRevealEnvelope with both size limits taken as exclusive
encodeRevealEnvelope_ExclusiveLimits(o, md) ==
    LET files == IF o.files.t = "undefined" THEN <<>> ELSE o.files.v
        enc == IF md.t = "buf" THEN Outcome(md, md) ELSE encodeMetadata(md)
        header == Buf(GLYPH_MAGIC \o <<GlyphVersion_V2, IS_REVEAL>>)
        bad == {i \in 1..Len(files) : Len(files[i].v) >= MAX_INLINE_FILE_SIZE}
    IN IF IsThrew(enc.ret) THEN enc
       ELSE IF Len(enc.ret.v) >= MAX_METADATA_SIZE
       THEN Outcome(Threw("Metadata exceeds maximum size of 262144 bytes"), enc.metadata)
       ELSE IF bad # {}
       THEN Outcome(Threw("File exceeds maximum inline size of 1048576 bytes"), enc.metadata)
       ELSE Outcome(Arr(<<header, enc.ret>> \o files), enc.metadata)

\* encodeRevealEnvelope({metadata: md, files: o.files}), files an array or
\* left out
encodeRevealEnvelope(o, md) ==
    LET files == IF o.files.t = "undefined" THEN <<>> ELSE o.files.v
        enc == IF md.t = "buf" THEN Outcome(md, md) ELSE encodeMetadata(md)
        header == Buf(GLYPH_MAGIC \o <<GlyphVersion_V2, IS_REVEAL>>)
        bad == FirstBadFile(files)
    IN IF IsThrew(enc.ret) THEN enc
       ELSE IF Len(enc.ret.v) > MAX_METADATA_SIZE
       THEN Outcome(Threw("Metadata exceeds maximum size of 262144 bytes"), enc.metadata)
       ELSE IF bad # 0
       THEN Outcome(Threw(IF CanRead(files[bad])
                          THEN "File exceeds maximum inline size of 1048576 bytes"
                          ELSE "TypeError"), enc.metadata)
       ELSE Outcome(Arr(<<header, enc.ret>> \o files), enc.metadata)

\* one entry of `calls`
Call(fn, on, arg, ret) == [fn |-> fn, on |-> on, arg |-> arg, ret |-> ret]

(***************************************************************************)
(* Metadata objects a caller can build: up to MaxProps properties, no key  *)
(* twice, drawn in any order from a pool that holds a version, a protocol  *)
(* list, a name with a quote and a two-byte character, a ticker, a nested  *)
(* object and an integer-index key.                                        *)
(***************************************************************************)
\* most properties of an enumerated metadata object
MaxProps == 2
\* most inline files of an enumerated reveal
MaxFiles == 2
\* most encoder calls of one session
MaxCalls == 3

MetadataPool ==
    {<<K_v, Num(GlyphVersion_V1)>>,
     <<K_v, Num(GlyphVersion_V2)>>,
     <<K_p, NumArr(<<GLYPH_FT, GLYPH_DMINT>>)>>,
     <<K_name, Str(<<84, 34, 233>>)>>,
     <<K_ticker, Str(<<88>>)>>,
     <<K_content, Obj(<<<<K_path, Str(<<97>>)>>, <<K_size, Num(1)>>>>)>>,
     <<<<49>>, Null>>}

DistinctKeys(props) ==
    \A i, j \in 1..Len(props) : i # j => props[i][1] # props[j][1]

MetadataObjects ==
    {Obj(OrderProps(props)) : props \in {ps \in SeqsUpTo(MetadataPool, MaxProps) : DistinctKeys(ps)}}

\* the same content with the properties created in the opposite order at
\* every nesting level
RECURSIVE DeepReverse(_)
DeepReverse(x) ==
    CASE x.t = "arr" -> Arr([i \in 1..Len(x.v) |-> DeepReverse(x.v[i])])
      [] x.t = "obj" ->
           Obj(OrderProps([k \in 1..Len(x.v) |->
                   <<x.v[Len(x.v) + 1 - k][1], DeepReverse(x.v[Len(x.v) + 1 - k][2])>>]))
      [] OTHER -> x

InitCanonical ==
    /\ op = "init"
    /\ metadata \in MetadataObjects
    /\ twin = DeepReverse(metadata)
    /\ protocols = Undefined
    /\ options = Undefined
    /\ scriptBuf = Undefined
    /\ calls = <<>>
    /\ tx = Undefined
    /\ result = NoResult

\* encodeMetadata(metadata) or encodeMetadata(twin)
EncodeMetadata ==
    /\ op \in {"init", "encodeMetadata", "computeCommitHash"}
    /\ metadata.t = "obj"
    /\ Len(calls) < MaxCalls
    /\ \E on \in {"metadata", "twin"} :
          LET arg == IF on = "metadata" THEN metadata ELSE twin
              out == encodeMetadata(arg)
          IN /\ result' = out.ret
             /\ metadata' = IF on = "metadata" THEN out.metadata ELSE metadata
             /\ twin' = IF on = "twin" THEN out.metadata ELSE twin
             /\ calls' = Append(calls, Call("encodeMetadata", on, arg, out.ret))
    /\ op' = "encodeMetadata"
    /\ UNCHANGED <<protocols, options, scriptBuf, tx>>

\* computeCommitHash(metadata), computeCommitHash(twin), or
\* computeCommitHash(bytes) on the bytes encodeMetadata has just returned
ComputeCommitHash ==
    /\ op \in {"init", "encodeMetadata", "computeCommitHash"}
    /\ metadata.t = "obj"
    /\ Len(calls) < MaxCalls
    /\ \E on \in {"metadata", "twin", "bytes"} :
          /\ on = "bytes" => op = "encodeMetadata" /\ result.t = "buf"
          /\ LET arg == CASE on = "metadata" -> metadata
                          [] on = "twin" -> twin
                          [] OTHER -> result
                 out == computeCommitHash(arg)
             IN /\ result' = out.ret
                /\ metadata' = IF on = "metadata" THEN out.metadata ELSE metadata
                /\ twin' = IF on = "twin" THEN out.metadata ELSE twin
                /\ calls' = Append(calls, Call("computeCommitHash", on, arg, out.ret))
    /\ op' = "computeCommitHash"
    /\ UNCHANGED <<protocols, options, scriptBuf, tx>>

\* decodeMetadata(buf) (lib/glyph/decoder.js): JSON.parse of the UTF-8 text;
\* a SyntaxError is thrown on to the caller
decodeMetadata(buf) ==
    LET parsed == JSONParse(Utf8Decode(buf.v))
    IN IF parsed.ok THEN parsed.val ELSE Threw("SyntaxError")

\* decodeMetadata on the bytes encodeMetadata has just returned
DecodeMetadata ==
    /\ op = "encodeMetadata"
    /\ result.t = "buf"
    /\ op' = "decodeMetadata"
    /\ result' = decodeMetadata(result)
    /\ UNCHANGED <<protocols, options, metadata, twin, calls, scriptBuf, tx>>

NextCanonical == EncodeMetadata \/ ComputeCommitHash \/ DecodeMetadata

SpecCanonical == InitCanonical /\ [][NextCanonical]_vars

\* the same keys with structurally equal values at every nesting level, in
\* whatever key order
RECURSIVE StructEq(_, _)
StructEq(a, b) ==
    /\ a.t = b.t
    /\ CASE a.t = "obj" ->
              /\ {a.v[i][1] : i \in 1..Len(a.v)} = {b.v[i][1] : i \in 1..Len(b.v)}
              /\ \A i \in 1..Len(a.v) : StructEq(a.v[i][2], Get(b, a.v[i][1]))
         [] a.t = "arr" ->
              /\ Len(a.v) = Len(b.v)
              /\ \A i \in 1..Len(a.v) : StructEq(a.v[i], b.v[i])
         [] OTHER -> a.v = b.v

\* C7: canonical bytes and commit hash depend only on the structural content:
\* two calls of encodeMetadata, or of computeCommitHash, on metadata values
\* with the same keys and values at every level but another key order return
\* the same bytes / digest; computeCommitHash called again on the same value
\* returns the same digest; and computeCommitHash(M) equals
\* computeCommitHash(encodeMetadata(M)).
C7_CanonicalOrderIndependent ==
    \A i, j \in 1..Len(calls) :
        /\ (/\ calls[i].fn = calls[j].fn
            /\ calls[i].on # "bytes" /\ calls[j].on # "bytes"
            /\ StructEq(calls[i].arg, calls[j].arg)) => calls[i].ret = calls[j].ret
        /\ (/\ calls[i].fn = "computeCommitHash" /\ calls[j].fn = "computeCommitHash"
            /\ calls[i].on = calls[j].on /\ calls[i].on # "bytes") =>
                calls[i].ret = calls[j].ret
        /\ (/\ calls[i].fn = "encodeMetadata" /\ j = i + 1
            /\ calls[j].fn = "computeCommitHash" /\ calls[j].on = "bytes") =>
                \A k \in 1..Len(calls) :
                    (calls[k].fn = "computeCommitHash" /\ calls[k].on = calls[i].on) =>
                        calls[k].ret = calls[j].ret

\* the bytes of one key order, hashed, against the digest of the other order
C7_Witness ==
    /\ Len(calls) = 3
    /\ calls[1].fn = "encodeMetadata" /\ calls[1].on = "twin"
    /\ calls[2].fn = "computeCommitHash" /\ calls[2].on = "bytes"
    /\ calls[3].fn = "computeCommitHash" /\ calls[3].on = "metadata"
    /\ calls[1].arg # calls[3].arg
    /\ StructEq(calls[1].arg, calls[3].arg)
    /\ Len(calls[3].arg.v) = 2
    /\ HasKey(calls[3].arg, K_content)
    /\ calls[2].ret = calls[3].ret
    /\ Len(calls[3].ret.v) = 32

(***************************************************************************)
(* Reveal sessions: the caller encodes a reveal envelope for a metadata    *)
(* object with no file list (createRevealEnvelope) or with up to MaxFiles  *)
(* inline files, joins the chunks and decodes the joined buffer.           *)
(***************************************************************************)
\* an empty file, a blank, the text {} and a NUL byte
FileSamples == {Buf(<<>>), Buf(<<32>>), Buf(<<123, 125>>), Buf(<<0>>)}

\* metadata handed over as bytes: the text {} and bytes that are no text
RawMetadata == {Buf(<<123, 125>>), Buf(<<0, 255>>)}

RevealOptions ==
    [files : {Undefined} \cup {Arr(fs) : fs \in SeqsUpTo(FileSamples, MaxFiles)}]

IsRevealOptions(o) == "files" \in DOMAIN o

InitReveal ==
    /\ op = "init"
    /\ metadata \in MetadataObjects \cup RawMetadata
    /\ options \in RevealOptions
    /\ twin = Undefined
    /\ protocols = Undefined
    /\ scriptBuf = Undefined
    /\ calls = <<>>
    /\ tx = Undefined
    /\ result = NoResult

\* encodeRevealEnvelope({metadata, files}); createRevealEnvelope(metadata)
\* is the call with files left out
EncodeRevealEnvelope ==
    /\ op = "init"
    /\ IsRevealOptions(options)
    /\ LET out == encodeRevealEnvelope(options, metadata)
       IN /\ result' = out.ret
          /\ metadata' = out.metadata
          /\ calls' = Append(calls, Call("encodeRevealEnvelope", "metadata",
                                         [metadata |-> metadata, files |-> options.files],
                                         out.ret))
    /\ op' = "encodeRevealEnvelope"
    /\ UNCHANGED <<protocols, options, twin, scriptBuf, tx>>

\* Buffer.concat(chunks) of the chunks the encoder returned
ConcatChunks ==
    /\ op = "encodeRevealEnvelope"
    /\ result.t = "arr"
    /\ op' = "concat"
    /\ scriptBuf' = Buf(Flatten([i \in 1..Len(result.v) |-> result.v[i].v], 1, Len(result.v)))
    /\ UNCHANGED <<protocols, options, metadata, twin, calls, result, tx>>

NextReveal == EncodeRevealEnvelope \/ ConcatChunks \/ DecodeEnvelope

SpecReveal == InitReveal /\ [][NextReveal]_vars

\* C5: reveal round trip: for every metadata object M and every list of
\* inline files, decoding the joined chunks of encodeRevealEnvelope /
\* createRevealEnvelope gives a non-null reveal envelope with isReveal true
\* whose metadata is structurally equal to M (with v = 2 if M lacked v), its
\* name and ticker equal to those of M.
C5_RevealRoundTrip ==
    (op = "decodeEnvelope" /\ IsRevealOptions(options) /\ metadata.t = "obj") =>
        LET M == calls[1].arg.metadata
            expected == IF HasKey(M, K_v) THEN M
                        ELSE Obj(Append(M.v, <<K_v, Num(2)>>))
        IN /\ IsEnvelope(result)
           /\ result.isReveal = TRUE
           /\ result.metadata.t = "obj"
           /\ StructEq(result.metadata, expected)
           /\ Get(result.metadata, K_name) = Get(M, K_name)
           /\ Get(result.metadata, K_ticker) = Get(M, K_ticker)

\* the round trip without inline files, the part of C5 the code keeps
RevealRoundTripNoFiles ==
    (op = "decodeEnvelope" /\ IsRevealOptions(options) /\ metadata.t = "obj"
     /\ options.files \in {Undefined, Arr(<<>>)}) =>
        LET M == calls[1].arg.metadata
            expected == IF HasKey(M, K_v) THEN M
                        ELSE Obj(Append(M.v, <<K_v, Num(2)>>))
        IN /\ IsEnvelope(result)
           /\ result.isReveal = TRUE
           /\ result.metadata.t = "obj"
           /\ StructEq(result.metadata, expected)

(***************************************************************************)
(* Metadata validator (lib/glyph/validator.js)                             *)
(***************************************************************************)
MAX_NAME_SIZE == 256
MAX_DESC_SIZE == 4096
MAX_PATH_SIZE == 512
MAX_MIME_SIZE == 128

\* ${i} in a template string
DigitText == <<"0", "1", "2", "3", "4", "5", "6", "7", "8", "9">>

RECURSIVE IndexText(_)
IndexText(n) ==
    IF n < 10 THEN DigitText[n + 1]
    ELSE IndexText(n \div 10) \o DigitText[(n % 10) + 1]

\* What a run of checks leaves: the messages pushed to errors, in order,
\* with the mark Thrown where a check raised a TypeError.  An exception
\* leaves the function at once and the caller sees no errors array, so what
\* follows a mark is never looked at.
Thrown == <<"<TypeError>">>

\* if (cond) errors.push(msg)
Push(cond, msg) == IF cond THEN <<msg>> ELSE <<>>

\* Buffer.byteLength(x, 'utf8') accepts a string or a Buffer and raises a
\* TypeError on every other value
HasByteLength(x) == x.t \in {"str", "buf"}

ByteLength(x) == IF x.t = "str" THEN Utf8ByteLength(x.v) ELSE Len(x.v)

\* if (value && Buffer.byteLength(value, 'utf8') > limit) errors.push(msg)
SizeLimit(value, limit, msg) ==
    IF ~Truthy(value) THEN <<>>
    ELSE IF ~HasByteLength(value) THEN Thrown
    ELSE Push(ByteLength(value) > limit, msg)

\* if (!value) errors.push(missing) else if (byteLength(value) > limit) ...
RequiredSized(value, missing, limit, msg) ==
    IF ~Truthy(value) THEN <<missing>> ELSE SizeLimit(value, limit, msg)

validateContentFile(file, path) ==
    IF ~CanRead(file) THEN Thrown
    ELSE RequiredSized(Get(file, K_path), path \o " requires path",
                       MAX_PATH_SIZE, path \o ".path exceeds 512 bytes")
         \o RequiredSized(Get(file, K_mime), path \o " requires mime type",
                          MAX_MIME_SIZE, path \o ".mime exceeds 128 bytes")
         \o Push(Get(file, K_size).t # "num", path \o " requires size")
         \o Push(\/ ~Truthy(Get(file, K_hash))
                 \/ ~Truthy(Get(Get(file, K_hash), K_algo))
                 \/ ~Truthy(Get(Get(file, K_hash), K_hex)),
                 path \o " requires hash with algo and hex")

\* content.files.forEach / content.refs.forEach
ValidateEntries(entries, isRef) ==
    Flatten([i \in 1..Len(entries) |->
                IF isRef
                THEN validateContentFile(entries[i], "content.refs[" \o IndexText(i - 1) \o "]")
                     \o Push(~Truthy(Get(entries[i], K_uri)),
                             "content.refs[" \o IndexText(i - 1)
                             \o "] requires uri for external reference")
                ELSE validateContentFile(entries[i],
                                         "content.files[" \o IndexText(i - 1) \o "]")],
            1, Len(entries))

validateContent(content) ==
    (IF Truthy(Get(content, K_primary))
     THEN validateContentFile(Get(content, K_primary), "content.primary") ELSE <<>>)
    \o (IF Truthy(Get(content, K_files)) /\ IsArray(Get(content, K_files))
        THEN ValidateEntries(Get(content, K_files).v, FALSE) ELSE <<>>)
    \o (IF Truthy(Get(content, K_refs)) /\ IsArray(Get(content, K_refs))
        THEN ValidateEntries(Get(content, K_refs).v, TRUE) ELSE <<>>)

\* royalty.splits.forEach: the messages, and totalBps after the loop
ValidateSplits(splits) ==
    Flatten([i \in 1..Len(splits) |->
                IF ~CanRead(splits[i]) THEN Thrown
                ELSE Push(~Truthy(Get(splits[i], K_address)),
                          "royalty.splits[" \o IndexText(i - 1) \o "] requires address")
                     \o Push(Get(splits[i], K_bps).t # "num",
                             "royalty.splits[" \o IndexText(i - 1) \o "] requires bps")],
            1, Len(splits))

TotalBps(splits) ==
    SumRange([i \in 1..Len(splits) |->
                 IF Get(splits[i], K_bps).t = "num" THEN Get(splits[i], K_bps).v ELSE 0],
             1, Len(splits))

validateRoyalty(royalty) ==
    Push(\/ Get(royalty, K_bps).t # "num"
         \/ Get(royalty, K_bps).v < 0
         \/ Get(royalty, K_bps).v > 10000, "Royalty bps must be 0-10000")
    \o Push(~Truthy(Get(royalty, K_address)), "Royalty requires address")
    \o (IF Truthy(Get(royalty, K_splits)) /\ IsArray(Get(royalty, K_splits))
        THEN ValidateSplits(Get(royalty, K_splits).v)
             \o Push(Num(TotalBps(Get(royalty, K_splits).v)) # Get(royalty, K_bps),
                     "Royalty splits must sum to total bps")
        ELSE <<>>)

\* the block under `if (metadata.p)`: protocols.includes is a function only
\* on an array, a string and a Buffer
ProtocolSections(md) ==
    IF ~Truthy(Get(md, K_p)) THEN <<>>
    ELSE IF ~HasIncludes(Get(md, K_p)) THEN Thrown
    ELSE Push(/\ Includes(Get(md, K_p), GLYPH_NFT)
              /\ \/ ~Truthy(Get(md, K_content))
                 \/ ~Truthy(Get(Get(md, K_content), K_primary)),
              "NFT requires content.primary")
         \o Push(/\ Includes(Get(md, K_p), GLYPH_FT)
                 /\ ~Truthy(Get(md, K_content)) /\ ~Truthy(Get(md, K_ticker)),
                 "FT requires ticker if no content")
         \o Push(Includes(Get(md, K_p), GLYPH_CONTAINER) /\ ~Truthy(Get(md, K_container)),
                 "Container protocol requires container object")
         \o Push(Includes(Get(md, K_p), GLYPH_DMINT) /\ ~Truthy(Get(md, K_dmint)),
                 "dMint protocol requires dmint configuration")
         \o Push(Includes(Get(md, K_p), GLYPH_AUTHORITY) /\ ~Truthy(Get(md, K_authority)),
                 "Authority protocol requires authority object")
         \o Push(Includes(Get(md, K_p), GLYPH_ENCRYPTED) /\ ~Truthy(Get(md, K_crypto)),
                 "Encrypted protocol requires crypto object")

\* the checks of validateMetadata in order, metadata readable
MetadataChecks(md) ==
    Push(\/ ~Truthy(Get(md, K_v))
         \/ (Get(md, K_v) # Num(GlyphVersion_V1) /\ Get(md, K_v) # Num(GlyphVersion_V2)),
         "Invalid or missing version (v)")
    \o Push(~Truthy(Get(md, K_type)) \/ Get(md, K_type).t # "str", "Missing type field")
    \o (IF ~Truthy(Get(md, K_p)) \/ ~IsArray(Get(md, K_p))
        THEN <<"Missing protocols array (p)">>
        ELSE IF validateProtocols(Get(md, K_p)).valid THEN <<>>
        ELSE <<validateProtocols(Get(md, K_p)).error>>)
    \o SizeLimit(Get(md, K_name), MAX_NAME_SIZE, "Name exceeds 256 bytes")
    \o SizeLimit(Get(md, K_desc), MAX_DESC_SIZE, "Description exceeds 4096 bytes")
    \o ProtocolSections(md)
    \o (IF Truthy(Get(md, K_content)) THEN validateContent(Get(md, K_content)) ELSE <<>>)
    \o (IF Truthy(Get(md, K_royalty)) THEN validateRoyalty(Get(md, K_royalty)) ELSE <<>>)

validateMetadata(md) ==
    IF ~CanRead(md) THEN Threw("TypeError")
    ELSE LET errors == MetadataChecks(md)
         IN IF \E i \in 1..Len(errors) : errors[i] = Thrown[1] THEN Threw("TypeError")
            ELSE [valid |-> Len(errors) = 0, errors |-> errors]

isValidGlyph(md) ==
    LET r == validateMetadata(md)
    IN IF IsThrew(r) THEN r ELSE Bool(r.valid)

(***************************************************************************)
(* Metadata a caller can hand to the validator: a valid NFT metadata with  *)
(* up to MaxDeviations of its fields replaced by an alternative (absent,   *)
(* well-formed or malformed), and values that are no object at all.        *)
(***************************************************************************)
\* most fields that differ from the valid base metadata
MaxDeviations == 2

GoodHash == Obj(<<<<K_algo, Str(<<115>>)>>, <<K_hex, Str(<<48, 48>>)>>>>)

GoodFile ==
    Obj(<<<<K_path, Str(<<97>>)>>, <<K_mime, Str(<<98>>)>>, <<K_size, Num(1)>>,
          <<K_hash, GoodHash>>>>)

GoodRef == Obj(Append(GoodFile.v, <<K_uri, Str(<<117>>)>>))

GoodRoyalty == Obj(<<<<K_bps, Num(500)>>, <<K_address, Str(<<114>>)>>>>)

Split(bps) == Obj(<<<<K_address, Str(<<115>>)>>, <<K_bps, Num(bps)>>>>)

FieldKeys ==
    <<K_v, K_type, K_p, K_name, K_desc, K_ticker, K_content, K_container,
      K_dmint, K_authority, K_crypto, K_royalty>>

\* the valid base: {v: 2, type: "t", p: [NFT], name: "T", content: {primary}}
BaseFields ==
    <<Num(GlyphVersion_V2), Str(<<116>>), NumArr(<<GLYPH_NFT>>), Str(<<84>>), Undefined,
      Undefined, Obj(<<<<K_primary, GoodFile>>>>), Undefined,
      Undefined, Undefined, Undefined, Undefined>>

\* the alternatives of each field, Undefined for a field left out
Alternatives ==
    << \* v
       <<Undefined, Num(GlyphVersion_V1), Num(3)>>,
       \* type
       <<Undefined, Num(7)>>,
       \* p
       <<Undefined, Num(5), NumArr(<<GLYPH_FT>>), NumArr(<<GLYPH_FT, GLYPH_NFT>>),
         NumArr(<<GLYPH_NFT, GLYPH_CONTAINER>>), NumArr(<<GLYPH_FT, GLYPH_DMINT>>),
         NumArr(<<GLYPH_NFT, GLYPH_AUTHORITY>>), NumArr(<<GLYPH_NFT, GLYPH_ENCRYPTED>>),
         NumArr(<<GLYPH_CONTAINER>>)>>,
       \* name
       <<Undefined, Str(Repeat(97, MAX_NAME_SIZE + 1)), Num(5)>>,
       \* desc
       <<Str(<<100>>), Str(Repeat(97, MAX_DESC_SIZE + 1)), Bool(TRUE)>>,
       \* ticker
       <<Str(<<88>>)>>,
       \* content
       <<Undefined, Obj(<<>>), Obj(<<<<K_primary, Obj(<<>>)>>>>),
         Obj(<<<<K_primary, GoodFile>>, <<K_files, Arr(<<GoodFile, Null>>)>>>>),
         Obj(<<<<K_primary, GoodFile>>, <<K_refs, Arr(<<GoodFile, GoodRef>>)>>>>),
         Obj(<<<<K_primary, GoodFile>>, <<K_refs, Arr(<<Null>>)>>>>)>>,
       \* container, dmint, authority, crypto
       <<Obj(<<>>)>>, <<Obj(<<>>)>>, <<Obj(<<>>)>>, <<Obj(<<>>)>>,
       \* royalty
       <<GoodRoyalty, Obj(<<<<K_bps, Num(10001)>>>>),
         Obj(GoodRoyalty.v \o <<<<K_splits, Arr(<<Split(200), Split(300)>>)>>>>),
         Obj(GoodRoyalty.v \o <<<<K_splits, Arr(<<Split(200)>>)>>>>),
         Obj(GoodRoyalty.v \o <<<<K_splits, Arr(<<Split(500), Null>>)>>>>)>> >>

\* the object with the fields given, a field of value Undefined left out
MetadataOf(fields) ==
    Obj(SelectSeq([k \in 1..Len(FieldKeys) |-> <<FieldKeys[k], fields[k]>>],
                  LAMBDA pr : pr[2] # Undefined))

\* the base with the fields of D replaced by the alternatives chosen in alt
Deviation(D, alt) ==
    MetadataOf([k \in 1..Len(FieldKeys) |->
                   IF k \in D THEN Alternatives[k][alt[k]] ELSE BaseFields[k]])

ValidatorInputs ==
    UNION {{Deviation(D, alt) :
               alt \in {a \in [D -> 1..9] : \A k \in D : a[k] <= Len(Alternatives[k])}} :
           D \in {S \in SUBSET (1..Len(FieldKeys)) : Cardinality(S) <= MaxDeviations}}
    \cup {Undefined, Null, Num(5), Str(<<120>>)}

InitMetadata ==
    /\ op = "init"
    /\ metadata \in ValidatorInputs
    /\ protocols = Get(metadata, K_p)
    /\ options = Undefined
    /\ twin = Undefined
    /\ scriptBuf = Undefined
    /\ calls = <<>>
    /\ tx = Undefined
    /\ result = NoResult

Called(fn) == \E i \in 1..Len(calls) : calls[i].fn = fn

ValidateMetadata ==
    /\ op \in {"init", "isValidGlyph"}
    /\ ~Called("validateMetadata")
    /\ op' = "validateMetadata"
    /\ result' = validateMetadata(metadata)
    /\ calls' = Append(calls, Call("validateMetadata", "metadata", metadata, result'))
    /\ UNCHANGED <<protocols, options, metadata, twin, scriptBuf, tx>>

IsValidGlyph ==
    /\ op \in {"init", "validateMetadata"}
    /\ ~Called("isValidGlyph")
    /\ op' = "isValidGlyph"
    /\ result' = isValidGlyph(metadata)
    /\ calls' = Append(calls, Call("isValidGlyph", "metadata", metadata, result'))
    /\ UNCHANGED <<protocols, options, metadata, twin, scriptBuf, tx>>

NextMetadata == ValidateMetadata \/ IsValidGlyph \/ ValidateProtocols

SpecMetadata == InitMetadata /\ [][NextMetadata]_vars

Entries(seq) == {seq[i] : i \in 1..Len(seq)}

Returned(ret) == "valid" \in DOMAIN ret /\ "errors" \in DOMAIN ret

SectionMessages ==
    {"NFT requires content.primary", "FT requires ticker if no content",
     "Container protocol requires container object",
     "dMint protocol requires dmint configuration",
     "Authority protocol requires authority object",
     "Encrypted protocol requires crypto object"}

\* the messages of the protocol-conditioned sections md is missing, p an array
MissingSections(md) ==
    LET has(id) == \E i \in 1..Len(Get(md, K_p).v) : Get(md, K_p).v[i] = Num(id)
    IN {m \in SectionMessages :
          \/ /\ m = "NFT requires content.primary"
             /\ has(GLYPH_NFT)
             /\ ~HasKey(md, K_content) \/ ~HasKey(Get(md, K_content), K_primary)
          \/ /\ m = "FT requires ticker if no content"
             /\ has(GLYPH_FT)
             /\ ~HasKey(md, K_content) /\ ~HasKey(md, K_ticker)
          \/ m = "Container protocol requires container object"
             /\ has(GLYPH_CONTAINER) /\ ~HasKey(md, K_container)
          \/ m = "dMint protocol requires dmint configuration"
             /\ has(GLYPH_DMINT) /\ ~HasKey(md, K_dmint)
          \/ m = "Authority protocol requires authority object"
             /\ has(GLYPH_AUTHORITY) /\ ~HasKey(md, K_authority)
          \/ m = "Encrypted protocol requires crypto object"
             /\ has(GLYPH_ENCRYPTED) /\ ~HasKey(md, K_crypto)}

\* the messages of the rules md violates: version, type, protocols, name and
\* desc size, conditioned sections, the fields of the primary file, royalty
ViolatedRules(md) ==
    LET v == Get(md, K_v)
        type == Get(md, K_type)
        list == Get(md, K_p)
        name == Get(md, K_name)
        desc == Get(md, K_desc)
        primary == Get(Get(md, K_content), K_primary)
        royalty == Get(md, K_royalty)
        bps == Get(royalty, K_bps)
        splits == Get(royalty, K_splits)
        splitSum == SumRange([i \in 1..Len(splits.v) |->
                                 IF Get(splits.v[i], K_bps).t = "num"
                                 THEN Get(splits.v[i], K_bps).v ELSE 0], 1, Len(splits.v))
    IN (IF v \in {Num(1), Num(2)} THEN {} ELSE {"Invalid or missing version (v)"})
       \cup (IF type.t = "str" /\ Len(type.v) > 0 THEN {} ELSE {"Missing type field"})
       \cup (IF ~IsArray(list) THEN {"Missing protocols array (p)"}
             ELSE IF validateProtocols(list).valid THEN {}
             ELSE {validateProtocols(list).error})
       \cup (IF name.t = "str" /\ Utf8ByteLength(name.v) > 256
             THEN {"Name exceeds 256 bytes"} ELSE {})
       \cup (IF desc.t = "str" /\ Utf8ByteLength(desc.v) > 4096
             THEN {"Description exceeds 4096 bytes"} ELSE {})
       \cup (IF IsArray(list) THEN MissingSections(md) ELSE {})
       \cup (IF primary.t = "obj" /\ ~HasKey(primary, K_path)
             THEN {"content.primary requires path"} ELSE {})
       \cup (IF primary.t = "obj" /\ ~HasKey(primary, K_mime)
             THEN {"content.primary requires mime type"} ELSE {})
       \cup (IF primary.t = "obj" /\ Get(primary, K_size).t # "num"
             THEN {"content.primary requires size"} ELSE {})
       \cup (IF primary.t = "obj" /\ (~HasKey(Get(primary, K_hash), K_algo)
                                      \/ ~HasKey(Get(primary, K_hash), K_hex))
             THEN {"content.primary requires hash with algo and hex"} ELSE {})
       \cup (IF royalty.t = "obj" /\ (bps.t # "num" \/ bps.v < 0 \/ bps.v > 10000)
             THEN {"Royalty bps must be 0-10000"} ELSE {})
       \cup (IF royalty.t = "obj" /\ ~HasKey(royalty, K_address)
             THEN {"Royalty requires address"} ELSE {})
       \cup (IF royalty.t = "obj" /\ IsArray(splits) /\ Num(splitSum) # bps
             THEN {"Royalty splits must sum to total bps"} ELSE {})

\* ret lists every rule md violates, and is valid exactly when it lists nothing
ListsEveryViolation(md, ret) ==
    /\ Returned(ret)
    /\ ViolatedRules(md) \subseteq Entries(ret.errors)
    /\ ret.valid <=> (Len(ret.errors) = 0)
    /\ (IsArray(Get(md, K_p)) =>
           Cardinality({i \in 1..Len(ret.errors) :
                           ~validateProtocols(Get(md, K_p)).valid
                           /\ ret.errors[i] = validateProtocols(Get(md, K_p)).error}) =
           (IF validateProtocols(Get(md, K_p)).valid THEN 0 ELSE 1))

\* C8: validateMetadata does not short-circuit: for every metadata object
\* errors holds an entry for each violated rule (version, type, protocols -
\* exactly the one error of validateProtocols when p is an array -, name and
\* desc size, conditioned sections, content/file fields, royalty fields),
\* valid is true exactly when errors is empty, and isValidGlyph(metadata)
\* equals validateMetadata(metadata).valid.
C8_NoShortCircuit ==
    \A i \in 1..Len(calls) :
        (calls[i].fn = "validateMetadata" /\ calls[i].arg.t = "obj") =>
            /\ ListsEveryViolation(calls[i].arg, calls[i].ret)
            /\ \A j \in 1..Len(calls) :
                   calls[j].fn = "isValidGlyph" => calls[j].ret = Bool(calls[i].ret.valid)

\* what C8 says, on the calls that return
NoShortCircuitWhenReturned ==
    \A i \in 1..Len(calls) :
        (calls[i].fn = "validateMetadata" /\ calls[i].arg.t = "obj"
         /\ ~IsThrew(calls[i].ret)) =>
            /\ ListsEveryViolation(calls[i].arg, calls[i].ret)
            /\ \A j \in 1..Len(calls) :
                   calls[j].fn = "isValidGlyph" => calls[j].ret = Bool(calls[i].ret.valid)

\* C9: validateProtocols and validateMetadata never throw: for every input,
\* malformed ones included (null or non-object metadata, p present but no
\* array, name or desc no string, null entries in content.files,
\* content.refs or royalty.splits), they return {valid, error} / {valid,
\* errors}.
C9_ValidatorsNeverThrow ==
    /\ op = "validateProtocols" => (~IsThrew(result) /\ "valid" \in DOMAIN result)
    /\ \A i \in 1..Len(calls) :
           calls[i].fn = "validateMetadata" =>
               (~IsThrew(calls[i].ret) /\ Returned(calls[i].ret))

\* ret reports the missing-section messages of md and no other section message
ReportsSections(md, ret) ==
    /\ Returned(ret)
    /\ Entries(ret.errors) \cap SectionMessages = MissingSections(md)

\* C10: for every metadata whose p is an array, validateMetadata reports the
\* missing-section error of NFT (content.primary), FT (ticker if no content),
\* CONTAINER, DMINT, AUTHORITY, ENCRYPTED exactly when that ID is in p and
\* its section is absent, also when the combination in p is itself invalid.
C10_ConditionedSections ==
    \A i \in 1..Len(calls) :
        (calls[i].fn = "validateMetadata" /\ IsArray(Get(calls[i].arg, K_p))) =>
            ReportsSections(calls[i].arg, calls[i].ret)

\* what C10 says, on the calls that return
ConditionedSectionsWhenReturned ==
    \A i \in 1..Len(calls) :
        (calls[i].fn = "validateMetadata" /\ IsArray(Get(calls[i].arg, K_p))
         /\ ~IsThrew(calls[i].ret)) =>
            ReportsSections(calls[i].arg, calls[i].ret)

(***************************************************************************)
(* Transaction scanner (lib/glyph/decoder.js).  A transaction is its list  *)
(* of outputs and its list of inputs; an output or input is the record of  *)
(* its script, script.toBuffer() being the script's bytes; an input may    *)
(* have no script (Undefined).                                             *)
(***************************************************************************)
\* most outputs and most inputs of an enumerated transaction
MaxOutputs == 2
MaxInputs == 2

\* what the two loops see, outputs first: decodeEnvelope of the script of
\* every output and of every input that has a script, Null for an input
\* without one
Envelopes(t) ==
    LET items == t.outputs \o t.inputs
    IN [i \in 1..Len(items) |->
           IF i > Len(t.outputs) /\ ~Truthy(items[i].script) THEN Null
           ELSE decodeEnvelope(items[i].script)]

Lowest(S) == CHOOSE i \in S : \A j \in S : i <= j

\* the 0-based index and the envelope of the first entry of envelopes[from + 1
\* .. from + n] that is in `hits`, as the loops return them
FirstHit(envelopes, from, hits) == [index |-> Lowest(hits), envelope |-> envelopes[from + Lowest(hits) + 1]]

\* mutant of ParseResult: an input is returned for any envelope
ParseResult_AnyInputEnvelope(t, envelopes) ==
    LET outs == {i \in 0..(Len(t.outputs) - 1) : envelopes[i + 1] # Null}
        ins == {i \in 0..(Len(t.inputs) - 1) : envelopes[Len(t.outputs) + i + 1] # Null}
    IN IF outs # {}
       THEN [type |-> IF FirstHit(envelopes, 0, outs).envelope.isReveal
                      THEN "reveal" ELSE "commit",
             outputIndex |-> Lowest(outs), envelope |-> FirstHit(envelopes, 0, outs).envelope]
       ELSE IF ins # {}
       THEN [type |-> "reveal", inputIndex |-> Lowest(ins),
             envelope |-> FirstHit(envelopes, Len(t.outputs), ins).envelope]
       ELSE Null

\* what parseGlyphTransaction returns given what the loops see: the first
\* output with an envelope, else the first input with a reveal envelope,
\* else null
ParseResult(t, envelopes) ==
    LET outs == {i \in 0..(Len(t.outputs) - 1) : envelopes[i + 1] # Null}
        ins == {i \in 0..(Len(t.inputs) - 1) :
                   /\ envelopes[Len(t.outputs) + i + 1] # Null
                   /\ envelopes[Len(t.outputs) + i + 1].isReveal}
    IN IF outs # {}
       THEN [type |-> IF FirstHit(envelopes, 0, outs).envelope.isReveal
                      THEN "reveal" ELSE "commit",
             outputIndex |-> Lowest(outs), envelope |-> FirstHit(envelopes, 0, outs).envelope]
       ELSE IF ins # {}
       THEN [type |-> "reveal", inputIndex |-> Lowest(ins),
             envelope |-> FirstHit(envelopes, Len(t.outputs), ins).envelope]
       ELSE Null

parseGlyphTransaction(t) == ParseResult(t, Envelopes(t))

\* scripts of a transaction: no magic, a magic cut off after the version, a
\* commit envelope, and two reveal envelopes (metadata 1 and metadata 2)
ScriptSamples ==
    {Buf(<<106, 1>>),
     Buf(GLYPH_MAGIC \o <<GlyphVersion_V2>>),
     Buf(<<106>> \o GLYPH_MAGIC \o <<GlyphVersion_V2, 0>> \o Repeat(7, COMMIT_HASH_SIZE)),
     Buf(GLYPH_MAGIC \o <<GlyphVersion_V2, IS_REVEAL, 49>>),
     Buf(<<106>> \o GLYPH_MAGIC \o <<GlyphVersion_V1, IS_REVEAL, 50>>)}

Transactions ==
    [outputs : {[i \in 1..Len(ss) |-> [script |-> ss[i]]] :
                   ss \in SeqsUpTo(ScriptSamples, MaxOutputs)},
     inputs : {[i \in 1..Len(ss) |-> [script |-> ss[i]]] :
                  ss \in SeqsUpTo(ScriptSamples \cup {Undefined}, MaxInputs)}]

InitTransaction ==
    /\ op = "init"
    /\ tx \in Transactions
    /\ protocols = Undefined
    /\ options = Undefined
    /\ metadata = Undefined
    /\ twin = Undefined
    /\ scriptBuf = Undefined
    /\ calls = <<>>
    /\ result = NoResult

ParseGlyphTransaction ==
    /\ op \in {"init", "isGlyphTransaction"}
    /\ tx # Undefined
    /\ op' = "parseGlyphTransaction"
    /\ result' = parseGlyphTransaction(tx)
    /\ UNCHANGED <<protocols, options, metadata, twin, calls, scriptBuf, tx>>

NextTransaction == ParseGlyphTransaction

SpecTransaction == InitTransaction /\ [][NextTransaction]_vars

\* the envelope the script of an output or input decodes to, Null if it has
\* no script or decodes to none
EnvelopeOf(item) == IF item.script.t = "buf" THEN decodeEnvelope(item.script) ELSE Null

\* C11: parseGlyphTransaction is first-match-wins in a fixed scan order: it
\* returns the envelope of the lowest-index output that decodes to any
\* envelope, tagged with that outputIndex and typed by the envelope's
\* IS_REVEAL flag; only when no output decodes, the envelope of the
\* lowest-index input that has a script decoding to a reveal envelope (a
\* commit envelope in an input is passed over), tagged with inputIndex and
\* type 'reveal'; and null when nothing matches.
C11_FirstMatchWins ==
    op = "parseGlyphTransaction" =>
        LET outs == {i \in 1..Len(tx.outputs) : EnvelopeOf(tx.outputs[i]) # Null}
            ins == {i \in 1..Len(tx.inputs) :
                       /\ EnvelopeOf(tx.inputs[i]) # Null
                       /\ BitSet(EnvelopeOf(tx.inputs[i]).flags, 128)}
        IN /\ (outs # {}) =>
                 \E i \in outs :
                    /\ \A j \in outs : i <= j
                    /\ result = [type |-> IF BitSet(EnvelopeOf(tx.outputs[i]).flags, 128)
                                          THEN "reveal" ELSE "commit",
                                 outputIndex |-> i - 1,
                                 envelope |-> EnvelopeOf(tx.outputs[i])]
           /\ (outs = {} /\ ins # {}) =>
                 \E i \in ins :
                    /\ \A j \in ins : i <= j
                    /\ result = [type |-> "reveal", inputIndex |-> i - 1,
                                 envelope |-> EnvelopeOf(tx.inputs[i])]
           /\ (outs = {} /\ ins = {}) => result = Null

\* no output decodes; the first input holds a commit envelope, the second a
\* reveal envelope, which is the one returned
C11_Witness ==
    /\ op = "parseGlyphTransaction"
    /\ Len(tx.outputs) = 1
    /\ Len(tx.inputs) = 2
    /\ tx.inputs[1].script = Buf(<<106>> \o GLYPH_MAGIC \o <<2, 0>> \o Repeat(7, 32))
    /\ tx.inputs[2].script = Buf(GLYPH_MAGIC \o <<2, 128, 49>>)
    /\ "inputIndex" \in DOMAIN result
    /\ result.inputIndex = 1
    /\ result.type = "reveal"
    /\ result.envelope.metadata = Num(1)

(***************************************************************************)
(* Size limits of encodeRevealEnvelope.  A call is described by the sizes   *)
(* of what it passes, as a test builds them (Buffer.alloc(n),               *)
(* {name: 'a'.repeat(n)}); the state keeps the description and the lengths  *)
(* of the returned chunks, the encoder works on the full-size values.       *)
(* The sizes lie within MaxSlack bytes of MAX_METADATA_SIZE and             *)
(* MAX_INLINE_FILE_SIZE, next to small ones.                                *)
(***************************************************************************)
\* how far from a limit the enumerated lengths lie
MaxSlack == 1

\* the lengths within MaxSlack of a limit
Around(limit) == {limit + d : d \in (0 - MaxSlack)..MaxSlack}

\* the canonical encoding of {name: <n characters>} is {"name":"...","v":2}:
\* NameFrame bytes around the bytes of the name
NameFrame == 17

\* n zero bytes
Bytes(n) == [kind |-> "bytes", c |-> 0, n |-> n]
\* {name: <n times the character c>}
Named(c, n) == [kind |-> "named", c |-> c, n |-> n]

\* the metadata a description stands for
SizedMetadata(d) ==
    IF d.kind = "bytes" THEN Buf(Repeat(0, d.n))
    ELSE Obj(<<<<K_name, Str(Repeat(d.c, d.n))>>>>)

\* the files option a description stands for: left out, or a list of
\* zero-filled buffers of the given lengths
SizedFiles(f) ==
    IF ~f.listed THEN Undefined
    ELSE Arr([i \in 1..Len(f.lengths) |-> Buf(Repeat(0, f.lengths[i]))])

\* raw bytes around the metadata limit and small metadata
SmallOrRaw ==
    {Bytes(n) : n \in Around(MAX_METADATA_SIZE) \cup {0, 2}} \cup {Named(97, 1)}

\* objects whose canonical encoding lies around the metadata limit, and one
\* whose name has half as many characters, of two bytes each
LargeObjects ==
    {Named(97, n - NameFrame) : n \in Around(MAX_METADATA_SIZE)}
    \cup {Named(233, (MAX_METADATA_SIZE - NameFrame) \div 2 + 1)}

\* no list, an empty list, a small file, one file around the inline limit,
\* and two files with the large one last
LimitFiles ==
    {[listed |-> FALSE, lengths |-> <<>>]}
    \cup {[listed |-> TRUE, lengths |-> ls] :
              ls \in {<<>>, <<1>>} \cup {<<n>> : n \in Around(MAX_INLINE_FILE_SIZE)}
                     \cup {<<1, n>> : n \in {MAX_INLINE_FILE_SIZE, MAX_INLINE_FILE_SIZE + 1}}}

\* the files next to a large object: none, one at the limit, one over it
FewFiles ==
    {f \in LimitFiles : f.lengths \in {<<>>, <<MAX_INLINE_FILE_SIZE>>,
                                        <<MAX_INLINE_FILE_SIZE + 1>>}}

SizedCalls ==
    [metadata : SmallOrRaw, files : LimitFiles]
    \cup [metadata : LargeObjects, files : FewFiles]

IsSizedCall(o) == "metadata" \in DOMAIN o

InitLimits ==
    /\ op = "init"
    /\ options \in SizedCalls
    /\ metadata = Undefined
    /\ twin = Undefined
    /\ protocols = Undefined
    /\ scriptBuf = Undefined
    /\ calls = <<>>
    /\ tx = Undefined
    /\ result = NoResult

\* encodeRevealEnvelope({metadata, files}) on the values `options` describes;
\* `result` keeps what was thrown or the lengths of the chunks, `metadata`
\* the v the call left on the metadata object
EncodeSizedReveal ==
    /\ op = "init"
    /\ IsSizedCall(options)
    /\ LET out == encodeRevealEnvelope([files |-> SizedFiles(options.files)],
                                       SizedMetadata(options.metadata))
       IN /\ result' = IF IsThrew(out.ret) THEN out.ret
                        ELSE [lengths |-> [i \in 1..Len(out.ret.v) |-> Len(out.ret.v[i].v)]]
          /\ metadata' = Get(out.metadata, K_v)
    /\ op' = "encodeRevealEnvelope"
    /\ UNCHANGED <<protocols, options, twin, scriptBuf, calls, tx>>

NextLimits == EncodeSizedReveal

SpecLimits == InitLimits /\ [][NextLimits]_vars

\* the byte length the metadata of a description has on the wire: raw bytes
\* as given, an object as NameFrame plus the UTF-8 bytes of its name
WireBytes(d) ==
    IF d.kind = "bytes" THEN d.n
    ELSE NameFrame + d.n * (IF d.c < 128 THEN 1 ELSE IF d.c < 2048 THEN 2 ELSE 3)

C13_CommitHashCheck ==
    (op = "encodeCommitEnvelope" /\ IsCommitOptions(options)) =>
        LET valid == /\ options.commitHash.t = "buf"
                     /\ Len(options.commitHash.v) = 32
        IN /\ IsThrew(result) <=> ~valid
           /\ IsThrew(result) => /\ result = Threw("Invalid commit hash")
                                  /\ scriptBuf = Undefined
           /\ valid => /\ "t" \in DOMAIN result
                        /\ result.t = "buf"
                        /\ Len(result.v) >= 37

\* a 33-byte hash was refused although flags, content root and controller
\* were all supplied
C13_Witness ==
    /\ op = "encodeCommitEnvelope"
    /\ IsCommitOptions(options)
    /\ options.commitHash.t = "buf"
    /\ Len(options.commitHash.v) = 33
    /\ options.flags = Num(255)
    /\ options.contentRoot # Undefined
    /\ options.controller # Undefined
    /\ result = Threw("Invalid commit hash")

(***************************************************************************)
(* The version field encodeMetadata writes                                 *)
(***************************************************************************)
\* the properties of an object other than v, in their order
OtherThanV(x) == SelectSeq(x.v, LAMBDA kv : kv[1] # K_v)

\* C14: for metadata M lacking v, the bytes of encodeMetadata(M) decode to an
\* object equal to M except that v is 2, and M itself has v = 2 afterwards;
\* for M with v equal to 1 or 2 the bytes carry that v and M is unchanged;
\* encodeMetadata never adds, removes or changes a field other than v.
C14_VersionFrame ==
    (op = "decodeMetadata") =>
        LET c == calls[Len(calls)]
            M == c.arg
            after == IF c.on = "metadata" THEN metadata ELSE twin
        IN /\ ~HasKey(M, K_v) =>
                  /\ StructEq(result, Obj(Append(M.v, <<K_v, Num(2)>>)))
                  /\ Get(after, K_v) = Num(2)
           /\ Get(M, K_v) \in {Num(1), Num(2)} =>
                  /\ StructEq(result, M)
                  /\ Get(result, K_v) = Get(M, K_v)
                  /\ after = M
           /\ OtherThanV(after) = OtherThanV(M)

\* an object with v = 1 and a name was encoded and decoded with v still 1
C14_Witness ==
    /\ op = "decodeMetadata"
    /\ calls[Len(calls)].arg = Obj(<<<<K_v, Num(1)>>, <<K_name, Str(<<84, 34, 233>>)>>>>)
    /\ Get(result, K_v) = Num(1)
    /\ Get(result, K_name) = Str(<<84, 34, 233>>)
    /\ metadata = calls[Len(calls)].arg

(***************************************************************************)
(* Which calls change their argument                                       *)
(***************************************************************************)
\* the object the last call was made on, as it is after the call
ArgumentAfter == IF calls[Len(calls)].on = "metadata" THEN metadata ELSE twin

\* C15: encodeMetadata filling in a missing v is the only operation that
\* modifies an argument: computeCommitHash (like the other operations)
\* leaves the metadata object passed to it unchanged, so validateMetadata of
\* that object gives the same result after the call as before it.
C15_OnlyEncodeMetadataMutates ==
    (op = "computeCommitHash" /\ calls[Len(calls)].on # "bytes") =>
        /\ ArgumentAfter = calls[Len(calls)].arg
        /\ validateMetadata(ArgumentAfter) = validateMetadata(calls[Len(calls)].arg)

\* the part of C15 the code keeps: computeCommitHash leaves an object that
\* has a version unchanged
ArgumentKeptWhenVersioned ==
    (op = "computeCommitHash" /\ calls[Len(calls)].on # "bytes"
     /\ Truthy(Get(calls[Len(calls)].arg, K_v))) =>
        ArgumentAfter = calls[Len(calls)].arg

(***************************************************************************)
(* Royalty checks of validateMetadata: the valid base metadata with a       *)
(* royalty object whose bps, address and splits vary.                      *)
(***************************************************************************)
\* most entries of an enumerated splits list
MaxSplits == 2

\* bps left out, below, at and above the ends of the range, and a string
BpsSamples ==
    {Undefined, Num(0 - 1), Num(0), Num(500), Num(10000), Num(10001), Str(<<53, 48, 48>>)}

\* splits of 0, 200, 300 and 500 bps, one without bps, and a null entry
SplitSamples ==
    {Split(0), Split(200), Split(300), Split(500),
     Obj(<<<<K_address, Str(<<115>>)>>>>), Null}

\* splits left out, a number, or a list of up to MaxSplits entries
SplitsSamples ==
    {Undefined, Num(5)} \cup {Arr(l) : l \in SeqsUpTo(SplitSamples, MaxSplits)}

RoyaltyOf(bps, address, splits) ==
    Obj(SelectSeq(<<<<K_bps, bps>>, <<K_address, address>>, <<K_splits, splits>>>>,
                  LAMBDA pr : pr[2] # Undefined))

RoyaltyInputs ==
    {Obj(Append(MetadataOf(BaseFields).v, <<K_royalty, RoyaltyOf(bps, address, splits)>>)) :
        bps \in BpsSamples, address \in {Undefined, Str(<<114>>)}, splits \in SplitsSamples}

InitRoyalty ==
    /\ op = "init"
    /\ metadata \in RoyaltyInputs
    /\ protocols = Get(metadata, K_p)
    /\ options = Undefined
    /\ twin = Undefined
    /\ scriptBuf = Undefined
    /\ calls = <<>>
    /\ tx = Undefined
    /\ result = NoResult

NextRoyalty == ValidateMetadata

SpecRoyalty == InitRoyalty /\ [][NextRoyalty]_vars

\* the sum of the bps of the entries of a splits list that carry a number
SplitSum(splits) ==
    LET nums == SelectSeq(splits, LAMBDA sp : sp.t = "obj" /\ Get(sp, K_bps).t = "num")
    IN SumRange([i \in 1..Len(nums) |-> Get(nums[i], K_bps).v], 1, Len(nums))

\* the three royalty rules against the errors list E
RoyaltyRules(royalty, E) ==
    LET bps == Get(royalty, K_bps)
        splits == Get(royalty, K_splits)
    IN /\ "Royalty bps must be 0-10000" \in E
             <=> ~(bps.t = "num" /\ bps.v >= 0 /\ bps.v <= 10000)
       /\ "Royalty requires address" \in E <=> ~HasKey(royalty, K_address)
       /\ IsArray(splits) =>
              ("Royalty splits must sum to total bps" \in E
                   <=> Num(SplitSum(splits.v)) # bps)
       /\ ~HasKey(royalty, K_splits) => "Royalty splits must sum to total bps" \notin E

\* C16: whenever metadata.royalty is present, validateMetadata reports
\* 'Royalty bps must be 0-10000' exactly when bps is not a number in
\* [0, 10000], 'Royalty requires address' exactly when address is absent,
\* and, when splits is a list, 'Royalty splits must sum to total bps' exactly
\* when the sum of the splits' bps differs from royalty.bps (an empty list
\* sums to 0); when splits is absent no sum check is made.
C16_RoyaltyChecks ==
    (op = "validateMetadata" /\ HasKey(metadata, K_royalty)) =>
        /\ Returned(result)
        /\ RoyaltyRules(Get(metadata, K_royalty), Entries(result.errors))

\* the part of C16 the code keeps: the royalty rules on every call that
\* returns
RoyaltyChecksWhenReturned ==
    (op = "validateMetadata" /\ HasKey(metadata, K_royalty) /\ Returned(result)) =>
        RoyaltyRules(Get(metadata, K_royalty), Entries(result.errors))

(***************************************************************************)
(* Name and description limits of validateMetadata: the valid base          *)
(* metadata with a name and a description whose byte lengths lie within    *)
(* MaxSlack of MAX_NAME_SIZE and MAX_DESC_SIZE.                            *)
(***************************************************************************)
\* texts of one-byte characters around the limit, texts of two-byte
\* characters at and over the limit (half as many characters), a text of
\* three-byte characters over it, no text, and a value that is no text
TextSamples(limit, other) ==
    {Str(Repeat(97, n)) : n \in Around(limit)}
    \cup {Str(Repeat(233, limit \div 2)), Str(Repeat(233, limit \div 2 + 1)),
          Str(Repeat(8364, limit \div 3 + 1)), Undefined, other}

SizeInputs ==
    {Obj(SelectSeq(<<<<K_v, Num(GlyphVersion_V2)>>, <<K_type, Str(<<116>>)>>,
                     <<K_p, NumArr(<<GLYPH_NFT>>)>>, <<K_name, name>>, <<K_desc, desc>>,
                     <<K_content, Obj(<<<<K_primary, GoodFile>>>>)>>>>,
                   LAMBDA pr : pr[2] # Undefined)) :
        name \in TextSamples(MAX_NAME_SIZE, Num(5)),
        desc \in TextSamples(MAX_DESC_SIZE, Bool(TRUE))}

InitSizes ==
    /\ op = "init"
    /\ metadata \in SizeInputs
    /\ protocols = Get(metadata, K_p)
    /\ options = Undefined
    /\ twin = Undefined
    /\ scriptBuf = Undefined
    /\ calls = <<>>
    /\ tx = Undefined
    /\ result = NoResult

NextSizes == ValidateMetadata

SpecSizes == InitSizes /\ [][NextSizes]_vars

\* the UTF-8 byte length of a text: one byte below U+0080, two below
\* U+0800, three below U+10000, four from there on
Utf8Size(text) ==
    SumRange([i \in 1..Len(text) |->
                 IF text[i] < 128 THEN 1 ELSE IF text[i] < 2048 THEN 2
                 ELSE IF text[i] < 65536 THEN 3 ELSE 4], 1, Len(text))

\* value is a text of more than limit UTF-8 bytes
TextOver(value, limit) == value.t = "str" /\ Utf8Size(value.v) > limit

\* the two size rules against the errors list E
SizeRules(md, E) ==
    /\ "Name exceeds 256 bytes" \in E <=> TextOver(Get(md, K_name), 256)
    /\ "Description exceeds 4096 bytes" \in E <=> TextOver(Get(md, K_desc), 4096)

\* C17: validateMetadata reports the name error exactly when name is present
\* and its UTF-8 byte length is greater than 256, and the description error
\* exactly when desc is present and its UTF-8 byte length is greater than
\* 4096; exactly 256 / 4096 bytes are accepted, and a name of fewer than 256
\* characters whose multi-byte encoding exceeds 256 bytes is rejected.
C17_NameDescByteLimits ==
    (op = "validateMetadata") =>
        /\ Returned(result)
        /\ SizeRules(metadata, Entries(result.errors))

\* the part of C17 the code keeps: the size rules on every call that returns
ByteLimitsWhenReturned ==
    (op = "validateMetadata" /\ Returned(result)) =>
        SizeRules(metadata, Entries(result.errors))

(***************************************************************************)
(* containsGlyphMagic (lib/glyph/decoder.js): a substring search on the     *)
(* hexadecimal text of the buffer.                                         *)
(***************************************************************************)
\* '676c79'
GLYPH_MAGIC_HEX == <<54, 55, 54, 99, 55, 57>>

\* buf.toString('hex'): two lower-case hexadecimal digits per byte
ToHex(bytes) ==
    Flatten([i \in 1..Len(bytes) |->
                <<HexDigit(bytes[i] \div 16), HexDigit(bytes[i] % 16)>>], 1, Len(bytes))

containsGlyphMagic(buf) == IsSubSeq(GLYPH_MAGIC_HEX, ToHex(buf.v))

\* longest buffer searched for the magic
MaxMagicBufLen == 4

\* the bytes of the magic, and the bytes 06 76 c7 90 whose hexadecimal text
\* holds the magic's text across the byte boundaries
HexAlphabet == {103, 108, 121, 6, 118, 199, 144}

InitMagic ==
    /\ op = "init"
    /\ scriptBuf \in {Buf(b) : b \in SeqsUpTo(HexAlphabet, MaxMagicBufLen)}
    /\ protocols = Undefined
    /\ options = Undefined
    /\ metadata = Undefined
    /\ twin = Undefined
    /\ calls = <<>>
    /\ tx = Undefined
    /\ result = NoResult

ContainsGlyphMagic ==
    /\ op = "init"
    /\ scriptBuf.t = "buf"
    /\ op' = "containsGlyphMagic"
    /\ result' = Bool(containsGlyphMagic(scriptBuf))
    /\ UNCHANGED <<protocols, options, metadata, twin, calls, scriptBuf, tx>>

NextMagic == ContainsGlyphMagic

SpecMagic == InitMagic /\ [][NextMagic]_vars

\* the bytes 0x67 0x6c 0x79 stand at b[i], b[i+1], b[i+2] for some i
HasMagicBytes(b) ==
    \E i \in 1..(Len(b) - 2) : b[i] = 103 /\ b[i + 1] = 108 /\ b[i + 2] = 121

\* C18: containsGlyphMagic(buf) returns true exactly when the three
\* consecutive bytes 0x67 0x6c 0x79 occur somewhere in buf as whole bytes, and
\* false otherwise, in particular for the empty buffer.
C18_MagicAsWholeBytes ==
    (op = "containsGlyphMagic") => (result = Bool(HasMagicBytes(scriptBuf.v)))

\* the part of C18 the code keeps: a buffer that holds the three bytes is
\* reported, and the empty buffer is not
MagicBytesAreFound ==
    (op = "containsGlyphMagic") =>
        /\ HasMagicBytes(scriptBuf.v) => result = Bool(TRUE)
        /\ scriptBuf.v = <<>> => result = Bool(FALSE)

(***************************************************************************)
(* Key order of canonicalizeObject: objects of up to MaxProps properties    *)
(* whose keys are letters and decimal numbers, with nested objects and      *)
(* arrays as values, and values that are no object.                        *)
(***************************************************************************)
\* the keys "10", "9", "B", "a", "b"
SortKeys == {<<49, 48>>, <<57>>, <<66>>, <<97>>, <<98>>}

\* {b: 1, a: null}, created in that order
NestedSample == Obj(<<<<(<<98>>), Num(1)>>, <<(<<97>>), Null>>>>)

SortValues == {Num(1), Str(<<98, 97>>), NestedSample, Arr(<<Num(2), NestedSample, Num(1)>>)}

SortInputs ==
    {Obj(OrderProps(props)) :
        props \in {ps \in SeqsUpTo(SortKeys \X SortValues, MaxProps) : DistinctKeys(ps)}}
    \cup {Null, Undefined, Num(0), Bool(FALSE), Str(<<98, 97>>),
          Arr(<<>>), Arr(<<Num(2), NestedSample, Num(1)>>)}

InitSort ==
    /\ op = "init"
    /\ metadata \in SortInputs
    /\ protocols = Undefined
    /\ options = Undefined
    /\ twin = Undefined
    /\ scriptBuf = Undefined
    /\ calls = <<>>
    /\ tx = Undefined
    /\ result = NoResult

CanonicalizeObject ==
    /\ op = "init"
    /\ op' = "canonicalizeObject"
    /\ result' = canonicalizeObject(metadata)
    /\ UNCHANGED <<protocols, options, metadata, twin, calls, scriptBuf, tx>>

NextSort == CanonicalizeObject

SpecSort == InitSort /\ [][NextSort]_vars

\* the order the code produces: integer-index keys by value, before the
\* other keys in lexicographic order
IndexFirst(a, b) ==
    IF IsIndexKey(a) /\ IsIndexKey(b)
    THEN DigitsValue(a, 1, Len(a) + 1) < DigitsValue(b, 1, Len(b) + 1)
    ELSE IF IsIndexKey(a) # IsIndexKey(b) THEN IsIndexKey(a)
    ELSE LexLess(a, b)

\* key a stands before key b: lexicographically, or index keys first
Before(a, b, lexicographic) == IF lexicographic THEN LexLess(a, b) ELSE IndexFirst(a, b)

\* r is x with the keys of every object, at every level, in the order
\* chosen, arrays in their order, everything else as it is
RECURSIVE CanonicalOf(_, _, _)
CanonicalOf(x, r, lexicographic) ==
    CASE x.t = "obj" ->
           /\ r.t = "obj"
           /\ Len(r.v) = Len(x.v)
           /\ {r.v[i][1] : i \in 1..Len(r.v)} = {x.v[i][1] : i \in 1..Len(x.v)}
           /\ \A i \in 1..(Len(r.v) - 1) : Before(r.v[i][1], r.v[i + 1][1], lexicographic)
           /\ \A i \in 1..Len(r.v) :
                  CanonicalOf(Get(x, r.v[i][1]), r.v[i][2], lexicographic)
      [] x.t = "arr" ->
           /\ r.t = "arr"
           /\ Len(r.v) = Len(x.v)
           /\ \A i \in 1..Len(r.v) : CanonicalOf(x.v[i], r.v[i], lexicographic)
      [] OTHER -> r = x

\* C19: canonicalizeObject returns, for an object, a new object whose keys
\* are exactly the input's keys in ascending lexicographic order, every value
\* canonicalized recursively (also inside array elements); for an array, an
\* array of the same length with each element canonicalized in the same
\* order; for null and primitives, the value itself.
C19_KeysLexicographic ==
    (op = "canonicalizeObject") => CanonicalOf(metadata, result, TRUE)

\* the part of C19 the code keeps: the same with integer-index keys in
\* numeric order ahead of the other keys
KeysIndexFirstThenLexicographic ==
    (op = "canonicalizeObject") => CanonicalOf(metadata, result, FALSE)

(***************************************************************************)
(* The chunks encodeRevealEnvelope returns                                 *)
(***************************************************************************)
\* the files of a call, none when the list is left out
FilesOf(arg) == IF arg.files.t = "undefined" THEN <<>> ELSE arg.files.v

\* C20: on success encodeRevealEnvelope({metadata, files}) returns exactly
\* 2 + |files| chunks: chunk 0 is the 5-byte header magic | version 2 | flags
\* 0x80, chunk 1 the canonical metadata bytes (the input bytes unchanged when
\* metadata is given as raw bytes), and chunk 2+i is files[i] unchanged, in
\* the input order.
C20_RevealChunks ==
    (op = "encodeRevealEnvelope" /\ IsRevealOptions(options) /\ ~IsThrew(result)) =>
        LET M == calls[1].arg.metadata
            files == FilesOf(calls[1].arg)
        IN /\ IsArray(result)
           /\ Len(result.v) = 2 + Len(files)
           /\ result.v[1] = Buf(<<103, 108, 121, 2, 128>>)
           /\ result.v[2] = (IF M.t = "buf" THEN M ELSE encodeMetadata(M).ret)
           /\ \A i \in 1..Len(files) : result.v[2 + i] = files[i]

\* raw metadata bytes and two different files came back as four chunks, the
\* files in the order given
C20_Witness ==
    /\ op = "encodeRevealEnvelope"
    /\ IsRevealOptions(options)
    /\ calls[1].arg.metadata = Buf(<<0, 255>>)
    /\ options.files = Arr(<<Buf(<<123, 125>>), Buf(<<0>>)>>)
    /\ result = Arr(<<Buf(<<103, 108, 121, 2, 128>>), Buf(<<0, 255>>),
                      Buf(<<123, 125>>), Buf(<<0>>)>>)

(***************************************************************************)
(* getTokenType (lib/glyph/validator.js)                                   *)
(***************************************************************************)
\* what getTokenType returns: a label
TokenType(label) == [label |-> label]

\* the NFT branch asks for the secondary tags in the opposite order
getTokenType_MutableFirst(list) ==
    IF ~HasIncludes(list) THEN Threw("TypeError")
    ELSE IF Includes(list, GLYPH_FT)
         THEN IF Includes(list, GLYPH_DMINT) THEN TokenType("dMint Fungible Token")
              ELSE TokenType("Fungible Token")
    ELSE IF Includes(list, GLYPH_NFT)
         THEN CASE Includes(list, GLYPH_MUT) -> TokenType("Mutable NFT")
                [] Includes(list, GLYPH_ENCRYPTED) -> TokenType("Encrypted NFT")
                [] Includes(list, GLYPH_CONTAINER) -> TokenType("Container")
                [] Includes(list, GLYPH_AUTHORITY) -> TokenType("Authority Token")
                [] Includes(list, GLYPH_WAVE) -> TokenType("WAVE Name")
                [] OTHER -> TokenType("NFT")
    ELSE IF Includes(list, GLYPH_DAT) THEN TokenType("Data Token")
    ELSE TokenType("Unknown")

\* getTokenType(protocols); protocols.includes is no function on a value that
\* is neither an array nor a string, and the call then throws a TypeError
getTokenType(list) ==
    IF ~HasIncludes(list) THEN Threw("TypeError")
    ELSE IF Includes(list, GLYPH_FT)
         THEN IF Includes(list, GLYPH_DMINT) THEN TokenType("dMint Fungible Token")
              ELSE TokenType("Fungible Token")
    ELSE IF Includes(list, GLYPH_NFT)
         THEN IF Includes(list, GLYPH_WAVE) THEN TokenType("WAVE Name")
              ELSE IF Includes(list, GLYPH_AUTHORITY) THEN TokenType("Authority Token")
              ELSE IF Includes(list, GLYPH_CONTAINER) THEN TokenType("Container")
              ELSE IF Includes(list, GLYPH_ENCRYPTED) THEN TokenType("Encrypted NFT")
              ELSE IF Includes(list, GLYPH_MUT) THEN TokenType("Mutable NFT")
              ELSE TokenType("NFT")
    ELSE IF Includes(list, GLYPH_DAT) THEN TokenType("Data Token")
    ELSE TokenType("Unknown")

\* getTokenType(protocols), first or after validateProtocols(protocols)
GetTokenType ==
    /\ op \in {"init", "validateProtocols"}
    /\ op' = "getTokenType"
    /\ result' = getTokenType(protocols)
    /\ UNCHANGED <<protocols, options, metadata, twin, calls, scriptBuf, tx>>

NextTokenType == ValidateProtocols \/ GetTokenType

SpecTokenType == InitProtocols /\ [][NextTokenType]_vars

\* the label the precedence gives to a set of ids
LabelOf(S) ==
    CASE GLYPH_FT \in S /\ GLYPH_DMINT \in S -> "dMint Fungible Token"
      [] GLYPH_FT \in S /\ GLYPH_DMINT \notin S -> "Fungible Token"
      [] GLYPH_FT \notin S /\ GLYPH_NFT \in S ->
            (CASE GLYPH_WAVE \in S -> "WAVE Name"
               [] GLYPH_WAVE \notin S /\ GLYPH_AUTHORITY \in S -> "Authority Token"
               [] {GLYPH_WAVE, GLYPH_AUTHORITY} \cap S = {} /\ GLYPH_CONTAINER \in S ->
                     "Container"
               [] {GLYPH_WAVE, GLYPH_AUTHORITY, GLYPH_CONTAINER} \cap S = {}
                  /\ GLYPH_ENCRYPTED \in S -> "Encrypted NFT"
               [] {GLYPH_WAVE, GLYPH_AUTHORITY, GLYPH_CONTAINER, GLYPH_ENCRYPTED} \cap S = {}
                  /\ GLYPH_MUT \in S -> "Mutable NFT"
               [] OTHER -> "NFT")
      [] {GLYPH_FT, GLYPH_NFT} \cap S = {} /\ GLYPH_DAT \in S -> "Data Token"
      [] OTHER -> "Unknown"

\* C21: for every protocol list L getTokenType returns 'dMint Fungible Token'
\* if FT and DMINT are in L; otherwise 'Fungible Token' if FT is in L;
\* otherwise, if NFT is in L, the label of the first present tag in the order
\* WAVE, AUTHORITY, CONTAINER, ENCRYPTED, MUT, and 'NFT' if none is present;
\* otherwise 'Data Token' if DAT is in L; otherwise 'Unknown'.  The label is
\* a function of the set of ids in L alone, not of their order or number.
C21_TokenTypeByPrecedence ==
    (op = "getTokenType" /\ IsArray(protocols)) =>
        result = TokenType(LabelOf({protocols.v[i].v : i \in 1..Len(protocols.v)}))

\* a list that names MUT before WAVE and NFT last was labelled by WAVE
C21_Witness ==
    /\ op = "getTokenType"
    /\ protocols = NumArr(<<GLYPH_MUT, GLYPH_WAVE, GLYPH_NFT>>)
    /\ result = TokenType("WAVE Name")

(***************************************************************************)
(* validateProtocols on a list and on the same entries in another order    *)
(***************************************************************************)
\* list with the entries at i and j exchanged
Swapped(list, i, j) ==
    [k \in 1..Len(list) |-> IF k = i THEN list[j] ELSE IF k = j THEN list[i] ELSE list[k]]

Reversed(list) == [k \in 1..Len(list) |-> list[Len(list) + 1 - k]]

Rotated(list) == IF list = <<>> THEN list ELSE Tail(list) \o <<Head(list)>>

\* the list itself, every exchange of two of its entries, its reversal and
\* its rotation by one place: all arrangements of a list of up to three
\* entries, and a generating set of the arrangements of a longer one
Rearranged(list) ==
    {Swapped(list, i, j) : i, j \in 1..Len(list)} \cup {Reversed(list), Rotated(list)}

InitArrangement ==
    /\ op = "init"
    /\ \E list \in ProtocolLists :
          /\ protocols = NumArr(list)
          /\ twin \in {NumArr(other) : other \in Rearranged(list)}
    /\ options = Undefined
    /\ metadata = Undefined
    /\ scriptBuf = Undefined
    /\ calls = <<>>
    /\ tx = Undefined
    /\ result = NoResult

\* validateProtocols(protocols), then validateProtocols(twin)
ValidateArrangement ==
    /\ op \in {"init", "validateProtocols"}
    /\ Len(calls) < 2
    /\ LET on == IF calls = <<>> THEN "protocols" ELSE "twin"
           arg == IF calls = <<>> THEN protocols ELSE twin
           ret == validateProtocols(arg)
       IN /\ result' = ret
          /\ calls' = Append(calls, Call("validateProtocols", on, arg, ret))
    /\ op' = "validateProtocols"
    /\ UNCHANGED <<protocols, options, metadata, twin, scriptBuf, tx>>

NextArrangement == ValidateArrangement

SpecArrangement == InitArrangement /\ [][NextArrangement]_vars

\* x and y hold the same entries the same number of times
SameEntries(x, y) ==
    /\ Len(x) = Len(y)
    /\ \A e \in {x[i] : i \in 1..Len(x)} :
          Cardinality({i \in 1..Len(x) : x[i] = e}) = Cardinality({i \in 1..Len(y) : y[i] = e})

\* C22: for any two protocol lists that are permutations of each other,
\* validateProtocols returns the same valid flag.
C22_OrderInsignificant ==
    (Len(calls) = 2 /\ SameEntries(protocols.v, twin.v)) =>
        calls[1].ret.valid = calls[2].ret.valid

\* two arrangements of one list were both rejected, each with the message of
\* the entry it names first
C22_Witness ==
    /\ Len(calls) = 2
    /\ protocols = NumArr(<<GLYPH_DMINT, GLYPH_MUT, GLYPH_DAT>>)
    /\ twin = NumArr(<<GLYPH_MUT, GLYPH_DAT, GLYPH_DMINT>>)
    /\ calls[1].ret = Invalid("Decentralized Minting requires Fungible Token")
    /\ calls[2].ret = Invalid("Mutable State requires Non-Fungible Token")

(***************************************************************************)
(* Glyph ids (lib/glyph/decoder.js): getGlyphId, parseGlyphId              *)
(***************************************************************************)
K_txid == <<116, 120, 105, 100>>
K_vout == <<118, 111, 117, 116>>

COLON == 58

NaN == [t |-> "nan", v |-> 0]

\* the text ${x} puts into a template string (strings and integers)
TemplateText(x) == IF x.t = "str" THEN x.v ELSE NumToString(x.v)

\* the vout is written in hexadecimal
getGlyphId_HexVout(txid, vout) ==
    LET RECURSIVE Hex(_)
        Hex(n) == IF n < 16 THEN <<HexDigit(n)>> ELSE Hex(n \div 16) \o <<HexDigit(n % 16)>>
    IN Str(TemplateText(txid) \o <<COLON>> \o Hex(vout.v))

\* `${txid}:${vout}`
getGlyphId(txid, vout) == Str(TemplateText(txid) \o <<COLON>> \o TemplateText(vout))

\* text.split(sep): the pieces between the separators (one piece, the text,
\* when it holds no separator)
RECURSIVE SplitText(_, _)
SplitText(text, sep) ==
    IF \A i \in 1..Len(text) : text[i] # sep THEN <<text>>
    ELSE LET at == CHOOSE i \in 1..Len(text) :
                       text[i] = sep /\ \A k \in 1..(i - 1) : text[k] # sep
         IN <<SubSeq(text, 1, at - 1)>> \o SplitText(SubSeq(text, at + 1, Len(text)), sep)

\* parseInt(x, 10): white space and one sign are skipped, the digits up to
\* the first other character are read; NaN when there is no digit (as for
\* undefined, whose text is "undefined")
ParseInt(x) ==
    IF x.t # "str" THEN NaN
    ELSE LET t == x.v
             i == SkipWs(t, 1)
             signed == i <= Len(t) /\ t[i] \in {43, 45}
             from == IF signed THEN i + 1 ELSE i
             to == DigitsEnd(t, from)
             n == DigitsValue(t, from, to)
         IN IF to = from THEN NaN
            ELSE IF signed /\ t[i] = 45 THEN Num(0 - n) ELSE Num(n)

\* const [txid, voutStr] = glyphId.split(':'); a piece that is not there is
\* undefined
parseGlyphId(glyphId) ==
    LET parts == SplitText(glyphId.v, COLON)
        voutStr == IF Len(parts) >= 2 THEN Str(parts[2]) ELSE Undefined
    IN Obj(<< <<K_txid, Str(parts[1])>>, <<K_vout, ParseInt(voutStr)>> >>)

\* transaction ids a caller can pass: texts of up to MaxTxidLen characters
\* over four hexadecimal digits and, for contrast, the separator
MaxTxidLen == 2

TxidAlphabet == {48, 57, 97, 102, COLON}

VoutSamples == {0, 1, 3, 10, 100, 255, 65535, 2147483647}

InitGlyphId ==
    /\ op = "init"
    /\ options \in [txid : {Str(t) : t \in SeqsUpTo(TxidAlphabet, MaxTxidLen)},
                    vout : {Num(n) : n \in VoutSamples}]
    /\ protocols = Undefined
    /\ metadata = Undefined
    /\ scriptBuf = Undefined
    /\ twin = Undefined
    /\ calls = <<>>
    /\ tx = Undefined
    /\ result = NoResult

\* getGlyphId(txid, vout)
GetGlyphId ==
    /\ op = "init"
    /\ op' = "getGlyphId"
    /\ LET ret == getGlyphId(options.txid, options.vout)
       IN /\ result' = ret
          /\ calls' = Append(calls, Call("getGlyphId", "options", options, ret))
    /\ UNCHANGED <<protocols, options, metadata, twin, scriptBuf, tx>>

\* parseGlyphId on the id getGlyphId has just returned
ParseGlyphId ==
    /\ op = "getGlyphId"
    /\ op' = "parseGlyphId"
    /\ LET ret == parseGlyphId(result)
       IN /\ result' = ret
          /\ calls' = Append(calls, Call("parseGlyphId", "result", result, ret))
    /\ UNCHANGED <<protocols, options, metadata, twin, scriptBuf, tx>>

NextGlyphId == GetGlyphId \/ ParseGlyphId

SpecGlyphId == InitGlyphId /\ [][NextGlyphId]_vars

IsHexText(x) == x.t = "str" /\ \A i \in 1..Len(x.v) : IsHex(x.v[i])

\* C23: for every hex txid string and every non-negative integer vout,
\* getGlyphId(txid, vout) is the text '<txid>:<decimal vout>' and
\* parseGlyphId of it returns exactly {txid, vout}, vout as a number; in
\* particular for vout in {0, 1, 3, 10, 100, 255}.
C23_GlyphIdRoundTrip ==
    (IsHexText(options.txid) /\ options.vout.v >= 0) =>
        /\ op = "getGlyphId" =>
              result = Str(options.txid.v \o <<COLON>> \o Decimal(options.vout.v))
        /\ op = "parseGlyphId" =>
              result = Obj(<< <<K_txid, options.txid>>, <<K_vout, options.vout>> >>)

\* 'f9' and 100 went out as 'f9:100' and came back as the text and the number
C23_Witness ==
    /\ op = "parseGlyphId"
    /\ options = [txid |-> Str(<<102, 57>>), vout |-> Num(100)]
    /\ calls[1].ret = Str(<<102, 57, COLON, 49, 48, 48>>)
    /\ result = Obj(<< <<K_txid, Str(<<102, 57>>)>>, <<K_vout, Num(100)>> >>)

(***************************************************************************)
(* Commit decoding: field lengths and truncation                           *)
(***************************************************************************)
\* the bytes a commit body needs for a flags byte
CommitBodyNeed(flags) ==
    COMMIT_HASH_SIZE
    + (IF BitSet(flags, HAS_CONTENT_ROOT) THEN CONTENT_ROOT_SIZE ELSE 0)
    + (IF BitSet(flags, HAS_CONTROLLER) THEN CONTROLLER_SIZE ELSE 0)

\* the first magic is followed by a known version and a flags byte
HasHeader(b) ==
    /\ FirstMagic(b) >= 0
    /\ Len(b) - (FirstMagic(b) + 3) >= 2
    /\ b[FirstMagic(b) + 4] \in {GlyphVersion_V1, GlyphVersion_V2}

\* the flags byte of such a buffer, and the bytes after it
HeaderFlags(b) == b[FirstMagic(b) + 5]
Body(b) == SubSeq(b, FirstMagic(b) + 6, Len(b))

\* C24: whenever decodeEnvelope returns a commit envelope its commitHash has
\* exactly 32 bytes, contentRoot is present (exactly 32 bytes) if and only if
\* flag bit0 is set and controller is present (exactly 36 bytes) if and only
\* if flag bit1 is set, read in the order hash, contentRoot, controller; and
\* for every buffer in which the first magic, a valid version and a commit
\* flags byte are followed by fewer bytes than the flags require, it returns
\* the absent result.
C24_CommitExactLengths ==
    op = "decodeEnvelope" =>
        LET b == scriptBuf.v
            body == Body(b)
            hasRoot == BitSet(result.flags, HAS_CONTENT_ROOT)
            hasCtrl == BitSet(result.flags, HAS_CONTROLLER)
            rootEnd == COMMIT_HASH_SIZE + (IF hasRoot THEN CONTENT_ROOT_SIZE ELSE 0)
        IN /\ (IsEnvelope(result) /\ result.type = "commit") =>
                 /\ result.flags = HeaderFlags(b)
                 /\ Len(body) >= CommitBodyNeed(result.flags)
                 /\ result.commitHash = Buf(SubSeq(body, 1, COMMIT_HASH_SIZE))
                 /\ "contentRoot" \in DOMAIN result <=> hasRoot
                 /\ hasRoot =>
                       result.contentRoot = Buf(SubSeq(body, COMMIT_HASH_SIZE + 1, rootEnd))
                 /\ "controller" \in DOMAIN result <=> hasCtrl
                 /\ hasCtrl =>
                       result.controller = Buf(SubSeq(body, rootEnd + 1, rootEnd + CONTROLLER_SIZE))
           /\ (HasHeader(b) /\ ~BitSet(HeaderFlags(b), IS_REVEAL)
               /\ Len(body) < CommitBodyNeed(HeaderFlags(b))) => result = Null

\* a commit with both optional fields over one hundred counting bytes: the
\* hash is bytes 1..32, the content root 33..64, the controller 65..100
C24_Witness ==
    /\ op = "decodeEnvelope"
    /\ scriptBuf = Buf(GLYPH_MAGIC \o <<GlyphVersion_V2, 3>> \o Counting(100))
    /\ IsEnvelope(result)
    /\ result.commitHash = Buf(Counting(32))
    /\ result.contentRoot.v[1] = 33 /\ Len(result.contentRoot.v) = 32
    /\ result.controller.v[1] = 65 /\ Len(result.controller.v) = 36

AfterFirstMagic(b) == SubSeq(b, FirstMagic(b) + 4, Len(b))

\* C26: decodeEnvelope parses at the first occurrence of the magic only: if
\* the bytes after it form no valid header (unknown version, truncation) the
\* result is absent even when a later magic starts a well-formed envelope;
\* when the first occurrence parses, a later one is ignored (it is part of
\* the body); and no envelope is returned unless the two bytes after the
\* first magic are a known version and a flags byte.
C26_AnchoredAtFirstMagic ==
    op = "decodeEnvelope" =>
        LET b == scriptBuf.v
            body == Body(b)
        IN /\ ~HasHeader(b) => result = Null
           /\ (HasHeader(b) /\ ~BitSet(HeaderFlags(b), IS_REVEAL)
               /\ Len(body) < CommitBodyNeed(HeaderFlags(b))) => result = Null
           /\ IsEnvelope(result) =>
                 /\ HasHeader(b)
                 /\ result.version = b[FirstMagic(b) + 4]
                 /\ result.flags = HeaderFlags(b)
                 /\ result.type = "commit" =>
                       result.commitHash = Buf(SubSeq(body, 1, COMMIT_HASH_SIZE))
                 /\ "rawMetadata" \in DOMAIN result => result.rawMetadata = Buf(body)
                 /\ (result.type = "reveal" /\ "rawMetadata" \notin DOMAIN result) =>
                       \/ body = <<>>
                       \/ result.metadata = JSONParse(Utf8Decode(body)).val

\* an unknown version after the first magic, a well-formed reveal envelope
\* at the second: nothing is returned
C26_Witness ==
    /\ op = "decodeEnvelope"
    /\ scriptBuf = Buf(GLYPH_MAGIC \o <<3>> \o GLYPH_MAGIC \o <<GlyphVersion_V2, IS_REVEAL, 49>>)
    /\ FirstMagic(AfterFirstMagic(scriptBuf.v)) = 1
    /\ IsEnvelope(decodeEnvelope(Buf(AfterFirstMagic(scriptBuf.v))))
    /\ result = Null

(***************************************************************************)
(* validateProtocols and ids that are no protocol tag                      *)
(***************************************************************************)
\* C27: validateProtocols returns valid only for lists every entry of which
\* is one of the eleven protocol tags (an integer from 1 to 11); a list that
\* holds another value, such as [0], [12] or [1, 99], is reported invalid.
C27_OnlyDefinedIds ==
    (op = "validateProtocols" /\ IsArray(protocols) /\ result.valid) =>
        \A i \in 1..Len(protocols.v) : protocols.v[i].v \in GlyphProtocol

\* an id without a table entry adds no rule: a list is judged as the list of
\* its defined tags would be, except for the count of its entries
UndefinedIdsAddNoRule ==
    (op = "validateProtocols" /\ IsArray(protocols)
     /\ Len(protocols.v) \in 2..MAX_PROTOCOLS) =>
        LET defined == SelectSeq(Ids(protocols), LAMBDA id : id \in GlyphProtocol)
        IN result.valid <=>
              /\ ~(GLYPH_FT \in {defined[i] : i \in 1..Len(defined)}
                   /\ GLYPH_NFT \in {defined[i] : i \in 1..Len(defined)})
              /\ RequirementError(NumArr(defined), 1) = NoResult
              /\ (GLYPH_BURN \in {defined[i] : i \in 1..Len(defined)} =>
                     \E i \in 1..Len(defined) : defined[i] \in {GLYPH_FT, GLYPH_NFT})

(***************************************************************************)
(* Accepted lists and their token type                                     *)
(***************************************************************************)
\* protocols is a list of defined protocol tags
ListOfTags ==
    /\ IsArray(protocols)
    /\ \A i \in 1..Len(protocols.v) : protocols.v[i].v \in GlyphProtocol

HasBaseType ==
    \E i \in 1..Len(protocols.v) : protocols.v[i].v \in {GLYPH_FT, GLYPH_NFT, GLYPH_DAT}

\* C28: for every list L of ids from 1..11, validateProtocols(L).valid
\* implies that L contains at least one of FT, NFT or DAT, and therefore
\* getTokenType(L) is never 'Unknown' for a list validateProtocols accepts.
C28_ValidHasBaseType ==
    /\ (op = "validateProtocols" /\ ListOfTags /\ result.valid) => HasBaseType
    /\ (op = "getTokenType" /\ ListOfTags /\ HasBaseType) => result # TokenType("Unknown")
    /\ (op = "getTokenType" /\ ListOfTags /\ validateProtocols(protocols).valid) =>
          result # TokenType("Unknown")

\* TIMELOCK reaches its base type through ENCRYPTED: the list is accepted
\* and is labelled by its NFT branch
C28_Witness ==
    /\ op = "getTokenType"
    /\ protocols = NumArr(<<GLYPH_TIMELOCK, GLYPH_ENCRYPTED, GLYPH_NFT>>)
    /\ validateProtocols(protocols) = [valid |-> TRUE]
    /\ result = TokenType("Encrypted NFT")

(***************************************************************************)
(* The 'cannot exist alone' outcome                                        *)
(***************************************************************************)
\* every message the standalone rule can build
StandaloneMessages == {NameOf(id) \o " cannot exist alone" : id \in ProtocolIds}

BurnMessage == "Burn must accompany Fungible Token or Non-Fungible Token"

\* C29: 'cannot exist alone' is produced only for the single-entry list
\* [BURN]: a single-entry list of DMINT, MUT, CONTAINER, ENCRYPTED, TIMELOCK,
\* AUTHORITY or WAVE is rejected earlier with a 'requires' error, and no list
\* of two or more entries ever produces 'cannot exist alone' ([BURN, BURN]
\* and [DAT, BURN] are rejected by the BURN-must-accompany rule).
C29_StandaloneOnlyForBurn ==
    (op = "validateProtocols" /\ IsArray(protocols)) =>
        LET L == Ids(protocols)
        IN /\ ("error" \in DOMAIN result /\ result.error \in StandaloneMessages) <=>
                 L = <<GLYPH_BURN>>
           /\ L = <<GLYPH_BURN>> => result = Invalid("Burn cannot exist alone")
           /\ (Len(L) = 1 /\ L[1] \in {GLYPH_DMINT, GLYPH_MUT, GLYPH_CONTAINER, GLYPH_ENCRYPTED,
                                       GLYPH_TIMELOCK, GLYPH_AUTHORITY, GLYPH_WAVE}) =>
                 result = Invalid(NameOf(L[1]) \o " requires "
                                  \o NameOf(PROTOCOL_REQUIREMENTS[L[1]][1]))
           /\ L \in {<<GLYPH_BURN, GLYPH_BURN>>, <<GLYPH_DAT, GLYPH_BURN>>} =>
                 result = Invalid(BurnMessage)

\* the lone BURN marker was rejected by the standalone rule
C29_Witness ==
    /\ op = "validateProtocols"
    /\ protocols = NumArr(<<GLYPH_BURN>>)
    /\ result = Invalid("Burn cannot exist alone")

(***************************************************************************)
(* The magic prefilter before decoding (lib/glyph/decoder.js)              *)
(***************************************************************************)
\* only the outputs are searched
isGlyphTransaction_OutputsOnly(t) ==
    \E i \in 1..Len(t.outputs) : containsGlyphMagic(t.outputs[i].script)

\* isGlyphTransaction(tx): true at the first output script that contains the
\* magic, else at the first input that has a script containing it, else false
isGlyphTransaction(t) ==
    \/ \E i \in 1..Len(t.outputs) : containsGlyphMagic(t.outputs[i].script)
    \/ \E i \in 1..Len(t.inputs) :
          Truthy(t.inputs[i].script) /\ containsGlyphMagic(t.inputs[i].script)

\* transactions handed to the prefilter: the enumerated ones, and one
\* transaction of a single output for every enumerated script buffer and
\* every buffer of up to MaxMagicBufLen bytes whose hexadecimal digits can
\* spell the magic
PrefilterScripts ==
    {Buf(b) : b \in ScriptBuffers \cup SeqsUpTo(HexAlphabet, MaxMagicBufLen)}

PrefilterTransactions ==
    Transactions
    \cup {[outputs |-> <<[script |-> script]>>, inputs |-> <<>>] : script \in PrefilterScripts}

InitPrefilter ==
    /\ op = "init"
    /\ tx \in PrefilterTransactions
    /\ scriptBuf = Undefined
    /\ protocols = Undefined
    /\ options = Undefined
    /\ metadata = Undefined
    /\ twin = Undefined
    /\ calls = <<>>
    /\ result = NoResult

IsGlyphTransaction ==
    /\ op = "init"
    /\ tx # Undefined
    /\ op' = "isGlyphTransaction"
    /\ result' = Bool(isGlyphTransaction(tx))
    /\ calls' = Append(calls, Call("isGlyphTransaction", "tx", tx, result'))
    /\ UNCHANGED <<protocols, options, metadata, twin, scriptBuf, tx>>

\* the prefilter, then the scanner, on the same transaction
NextPrefilter == IsGlyphTransaction \/ ParseGlyphTransaction

SpecPrefilter == InitPrefilter /\ [][NextPrefilter]_vars

\* the scripts isGlyphTransaction looks at
ScannedScripts(t) ==
    {t.outputs[i].script : i \in 1..Len(t.outputs)}
    \cup {t.inputs[i].script : i \in {j \in 1..Len(t.inputs) : Truthy(t.inputs[j].script)}}

\* the script the returned envelope was decoded from
ReturnedScript(t, r) ==
    IF "outputIndex" \in DOMAIN r THEN t.outputs[r.outputIndex + 1].script
    ELSE t.inputs[r.inputIndex + 1].script

\* C30: for every byte buffer b, decodeEnvelope(b) non-null implies that
\* containsGlyphMagic(b) is true; for every transaction tx,
\* parseGlyphTransaction(tx) non-null implies that isGlyphTransaction(tx) is
\* true, where isGlyphTransaction(tx) is true exactly when containsGlyphMagic
\* holds for some output script or for the script of some input that has one.
C30_PrefilterNoFalseNegative ==
    /\ (op = "parseGlyphTransaction" /\ result # Null) =>
          /\ result.envelope = decodeEnvelope(ReturnedScript(tx, result))
          /\ containsGlyphMagic(ReturnedScript(tx, result))
          /\ calls # <<>> => calls[1].ret = Bool(TRUE)
    /\ op = "isGlyphTransaction" =>
          result = Bool(\E script \in ScannedScripts(tx) : containsGlyphMagic(script))

\* the only envelope of the transaction is a reveal in the script of its
\* second input; the first input has no script and the output holds no magic
C30_Witness ==
    /\ op = "parseGlyphTransaction"
    /\ Len(tx.outputs) = 1 /\ tx.outputs[1].script = Buf(<<106, 1>>)
    /\ Len(tx.inputs) = 2 /\ tx.inputs[1].script = Undefined
    /\ calls # <<>> /\ calls[1].ret = Bool(TRUE)
    /\ result # Null /\ result.inputIndex = 1

====
